---------------------------- MODULE Spec2Model ----------------------------
(***************************************************************************)
(* Verification model of acm19/pics: the copy/compress stage of the media  *)
(* parser, the worker pool shared by backup and restore, the S3 backup and *)
(* restore engine, the archive key format, and the date-ordered file       *)
(* renamer used by the directory renamer.                                  *)
(*                                                                         *)
(* The module holds one state machine per component.  Each has its own    *)
(* variables, initial predicate and next-state relation; a component's     *)
(* specification leaves the other components' variables at rest.           *)
(***************************************************************************)
EXTENDS Integers, Sequences, FiniteSets, TLC

VARIABLES
    \* ---- media parser: copyAndCompressFiles (internal/pics/parser.go) ----
    opts,            \* ParseOptions: MaxConcurrency, CompressJPEGs
    files,           \* the supported files the discovery walk will find, in walk order
    discoverIdx,     \* discoverFiles: how many files it has sent so far
    jobs,            \* the jobs channel's buffer (indices into files)
    jobsClosed,      \* close(jobs) has run
    errChan,         \* the error channel's buffer
    workerPc,        \* processFileWorker: each worker's position
    workerFile,      \* the job each worker holds (0: none)
    taken,           \* how many times each job was received by a worker
    staged,          \* jobs whose copy reached the staging directory
    compressed,      \* jobs whose staged copy was compressed
    parsePc,         \* copyAndCompressFiles: "wait" | "returned"
    parseErr,        \* its return value: 0 for nil, else the job whose error is returned
    topPc,           \* Parse: "copy" | "organise" | "returned"
    parseRet,        \* Parse's return: "none" | "nil" | "errCopy" | "errOrganise" | "errVideos"
    stagingDir,      \* the temporary directory made by Parse exists
    orgIdx,          \* OrganiseByDate: the last staged file its loop has handled
    targetDir,       \* the target directory: files moved into it, and whether renamed
    organiserCalls,  \* the organiser methods Parse has invoked
    progressChan,    \* opts.ProgressChan: nil or not, and its free buffer slots
    processedCount,  \* the atomic counter the workers share
    totalCount,      \* the atomic total, stored before the workers start
    lastEvent,       \* the last ProgressEvent built for the channel (<<>>: none yet)
    \* ---- runWorkerPool and the backup / restore engine (s3_backup.go) ----
    poolMode,        \* what the pool runs: "idle" | "abstract" | "backup" | "restore"
    poolJobs,        \* the jobs slice handed to runWorkerPool
    maxConcurrent,   \* its pool size
    sendIdx,         \* how many jobs the caller has sent to jobsChan
    jobsChan,        \* the buffered jobs channel
    jobsChanClosed,
    results,         \* the buffered results channel (TRUE: nil, FALSE: an error)
    wpc,             \* each pool worker's position
    wjob,            \* the job each pool worker holds
    wloc,            \* each pool worker's locals while inside the worker function
    handed,          \* how many times each job index was handed to the worker function
    poolPc,          \* the caller: "idle" | "send" | "wait" | "returned"
    poolRet,         \* runWorkerPool's return: "nil" | "error" | "none"
    source,          \* the backup source tree: directory name -> directory content
    bucket,          \* the object store: key -> archive
    target,          \* the restore target tree: directory name -> directory content
    runLog,          \* one record per finished BackupDirectories / RestoreDirectories call
    cur,             \* bookkeeping of the call in progress
    \* ---- archive key round trip ----
    keyPc, keyDir, keyImages, keyVideos, keyBuilt, keyExtracted,
    \* ---- matchesFilter (s3_backup.go) ----
    fltPc,           \* "idle" | "start" | "matched"
    fltKey,          \* the object key
    fltDate,         \* the (year, month) the key was written from; <<>> if it has none
    fltFilter,       \* the RestoreFilter
    fltMatched,      \* the value matchesFilter returned
    \* ---- OrganiseVideosAndRenameImages over the date directories ----
    orgPc,           \* "idle" | "start" | "videos" | "images" | "done" | "failed"
    orgDirs,         \* targetDir: directory name -> [root, hasVideos, videos]
    orgEntries,      \* the directory entries os.ReadDir returned
    orgCur,          \* the loop's counter current
    orgInitial,      \* targetDir as it was before the call
    \* ---- AggregatedFileDateExtractor.GetFileDate ----
    datePc,          \* "idle" | "loop" | "returned"
    dateFile,        \* the file: what exiftool and os.Stat give for it
    dateIdx,         \* the index of the extractor the loop is at
    dateRet,         \* the returned (date, err)
    \* ---- Parse over a source tree, one step after the other ----
    walkPc,          \* "idle" | "count" | "discover" | "copy" | "organise" | "rename" | "done"
    walkRoot,        \* the name of the source directory
    walkTree,        \* its entries: [path, isDir], paths relative to it
    walkTotal,       \* totalFiles, the result of countFiles
    walkJobs,        \* the jobs discoverFiles has sent
    walkStaging,     \* the staging directory: file name -> [src, modTime], the source
                     \* paths its content and its modification time come from
    walkTarget,      \* the target directory: date directory -> [root, videos]
    \* ---- temporary directories of the backup / restore jobs (s3_backup.go) ----
    tempPrefix,      \* "idle", or the prefix the jobs of the pool use
    tempPc,          \* job -> "start" | "write" | "read" | "cleanup" | "done" | "failed"
    tempDirOf,       \* job -> the number in the name of its temporary directory
    tempDirs,        \* the temporary directories that exist, by number
    tempFiles,       \* the archives in them: <<number, job>>
    tempResult,      \* job -> "" | "ok" | "error", what the job returns
    \* ---- the key backupDirectory builds for a directory (s3_backup.go) ----
    cmPc,            \* "idle" | "start" | "built"
    cmDir,           \* the directory: the set of the paths of its regular files
    cmKey,           \* s3Key
    \* ---- backupDirectory calls of concurrent invocations on one key ----
    bkPc,            \* invocation -> "idle" | "head" | "put" | "ok" | "failed"
    bkArchive,       \* invocation -> the archive it has written for the key
    bkObject,        \* the object under the key: <<>> for none, else <<archive>>
    \* ---- Parse with a discovery walk that can meet an unreadable path ----
    dwPc,            \* "idle" | "count" | "walk" | "workers" | "organise" | "returned"
    dwFiles,         \* the number of supported files of the source tree, in walk order
    dwFailCopy,      \* the files whose copy fails
    dwTotal,         \* totalFiles
    dwSent,          \* the number of jobs the walk has sent
    dwWalkErr,       \* the walk callback was called with an error and returned it
    dwRet,           \* what Parse returns: "none" | "nil" | "err"
    \* ---- OrganiseByDate(sourceDir, targetDir) ----
    obPc,            \* "idle" | "start" | "loop" | "nil" | "err"
    obSource,        \* sourceDir: entry name -> [isDir, id, date]
    obTarget,        \* targetDir: date directory name -> file name -> id
    obEntries,       \* the entries os.ReadDir returned
    obCur,           \* the number of entries the loop has handled
    obInitial,       \* [source, target] as they were before the call
    \* ---- file renamer / directory renamer (internal/pics) ----
    renPc,           \* RenameDirectory: "start" | "images" | "videos" | "done", or
                     \* returned with an error: "rejected" (a check) | "failed" (a rename)
    directory,       \* the name of the date directory
    parentDirs,      \* the names of the directories in its parent directory (a path
                     \* that is missing or names a regular file is not among them)
    renNewName,      \* the newName argument of RenameDirectory
    dirRoot,         \* files directly in the date directory: name -> [id, date]
    dirVideos,       \* files in its videos/ subdirectory
    renQueue,        \* the sorted files still to rename in the current renamer call
    renIdx,          \* the loop index i of the renamer
    renInitial       \* the directory as it was before RenameDirectory

parseTopVars == <<topPc, parseRet, stagingDir, orgIdx, targetDir, organiserCalls>>
progressVars == <<progressChan, processedCount, totalCount, lastEvent>>
parseVars == <<opts, files, discoverIdx, jobs, jobsClosed, errChan, workerPc,
               workerFile, taken, staged, compressed, parsePc, parseErr,
               parseTopVars, progressVars>>
poolVars == <<poolMode, poolJobs, maxConcurrent, sendIdx, jobsChan, jobsChanClosed,
              results, wpc, wjob, wloc, handed, poolPc, poolRet>>
storeVars == <<source, bucket, target, runLog, cur>>
filterVars == <<fltPc, fltKey, fltDate, fltFilter, fltMatched>>
orgVars == <<orgPc, orgDirs, orgEntries, orgCur, orgInitial>>
dateVars == <<datePc, dateFile, dateIdx, dateRet>>
walkVars == <<walkPc, walkRoot, walkTree, walkTotal, walkJobs, walkStaging, walkTarget>>
tempVars == <<tempPrefix, tempPc, tempDirOf, tempDirs, tempFiles, tempResult>>
countVars == <<cmPc, cmDir, cmKey>>
raceVars == <<bkPc, bkArchive, bkObject>>
faultVars == <<dwPc, dwFiles, dwFailCopy, dwTotal, dwSent, dwWalkErr, dwRet>>
byDateVars == <<obPc, obSource, obTarget, obEntries, obCur, obInitial>>
extraVars == <<orgVars, dateVars, walkVars, tempVars, countVars, raceVars, faultVars,
               byDateVars>>
keyCoreVars == <<keyPc, keyDir, keyImages, keyVideos, keyBuilt, keyExtracted>>
keyVars == <<keyCoreVars, filterVars, extraVars>>
renVars == <<renPc, directory, parentDirs, renNewName, dirRoot, dirVideos, renQueue,
             renIdx, renInitial>>
vars == <<parseVars, poolVars, storeVars, keyVars, renVars>>

(***************************************************************************)
(* Bounds of the model.                                                    *)
(***************************************************************************)
MaxWorkers == 2      \* largest pool size tried
MaxFiles == 3        \* most files the discovery walk finds
MaxJobs == 3         \* most jobs handed to runWorkerPool in the abstract pool
MaxRuns == 3         \* most backup / restore calls in one behaviour
MaxSuffixLen == 3    \* longest free-text suffix of a directory name
MaxCount == 2        \* largest image / video count in a key
MaxProgressFree == 1 \* most free slots of the progress channel's buffer
MaxWalkJobs == 5     \* most jobs a source tree of the model gives
MaxTempJobs == 3     \* jobs of one backup / restore worker pool
MaxRand == 1         \* rand.Int() gives 0..MaxRand
MaxInvocations == 3  \* BackupDirectories invocations running at the same time
MaxDate == 2         \* resolved dates are 1..MaxDate; 0 is the zero timestamp
MaxRenFiles == 3     \* most image files in the directory being renamed

\* Sequence helpers.
Range(s) == {s[i] : i \in 1..Len(s)}

SeqsUpTo(S, n) == UNION {[1..k -> S] : k \in 0..n}


(***************************************************************************)
(* Strings.  A Go string is modelled as the sequence of its characters,    *)
(* so that formatting, trimming, searching and comparing are computed as   *)
(* the library functions compute them.                                     *)
(***************************************************************************)
\* The characters the model uses, in ascending byte order: Go compares
\* strings bytewise.
AsciiOrder ==
    <<" ", "(", ")", ",", "-", ".", "/",
      "0", "1", "2", "3", "4", "5", "6", "7", "8", "9",
      "B", "G", "J", "M", "O", "P", "V", "_",
      "a", "b", "d", "e", "g", "i", "j", "m", "n", "o", "p", "r", "s", "t",
      "u", "v", "x", "z">>

CharCode(c) == CHOOSE i \in 1..Len(AsciiOrder) : AsciiOrder[i] = c

\* a < b on strings
RECURSIVE StrLess(_, _)
StrLess(a, b) ==
    IF b = <<>> THEN FALSE
    ELSE IF a = <<>> THEN TRUE
    ELSE IF Head(a) = Head(b) THEN StrLess(Tail(a), Tail(b))
    ELSE CharCode(Head(a)) < CharCode(Head(b))

\* strings.HasSuffix
HasSuffix(s, suffix) ==
    /\ Len(s) >= Len(suffix)
    /\ SubSeq(s, Len(s) - Len(suffix) + 1, Len(s)) = suffix

\* strings.TrimSuffix
TrimSuffix(s, suffix) ==
    IF HasSuffix(s, suffix) THEN SubSeq(s, 1, Len(s) - Len(suffix)) ELSE s

\* strings.Index, 0-based; -1 when substr does not occur
Index(s, substr) ==
    LET at == {i \in 1..(Len(s) - Len(substr) + 1) :
                   SubSeq(s, i, i + Len(substr) - 1) = substr}
    IN IF at = {} THEN -1
       ELSE (CHOOSE i \in at : \A j \in at : i <= j) - 1

Digits == <<"0", "1", "2", "3", "4", "5", "6", "7", "8", "9">>

\* fmt's %d of a non-negative int
RECURSIVE Itoa(_)
Itoa(n) ==
    IF n < 10 THEN <<Digits[n + 1]>>
    ELSE Itoa(n \div 10) \o <<Digits[(n % 10) + 1]>>

\* fmt's %05d of a non-negative int
RECURSIVE PadLeft(_, _)
PadLeft(s, width) == IF Len(s) >= width THEN s ELSE PadLeft(<<"0">> \o s, width)

Itoa05(n) == PadLeft(Itoa(n), 5)

\* strings.ToLower on the model's characters
LowerChar(c) ==
    CASE c = "B" -> "b" [] c = "G" -> "g" [] c = "J" -> "j" [] c = "M" -> "m"
      [] c = "O" -> "o" [] c = "P" -> "p" [] c = "V" -> "v" [] OTHER -> c

ToLower(s) == [i \in 1..Len(s) |-> LowerChar(s[i])]

\* filepath.Ext: the suffix beginning at the final dot of the final path
\* element; empty if there is no dot.
Ext(path) ==
    LET dots == {i \in 1..Len(path) : path[i] = "." /\
                    \A j \in i..Len(path) : path[j] # "/"}
    IN IF dots = {} THEN <<>>
       ELSE SubSeq(path, CHOOSE i \in dots : \A j \in dots : i >= j, Len(path))

(***************************************************************************)
(* The at-rest values of the components a specification does not run.      *)
(***************************************************************************)
PoolIdle ==
    /\ poolMode = "idle"
    /\ poolJobs = <<>>
    /\ maxConcurrent = 0
    /\ sendIdx = 0
    /\ jobsChan = <<>>
    /\ jobsChanClosed = FALSE
    /\ results = <<>>
    /\ wpc = <<>>
    /\ wjob = <<>>
    /\ wloc = <<>>
    /\ handed = <<>>
    /\ poolPc = "idle"
    /\ poolRet = "none"

StoreIdle ==
    /\ source = <<>>
    /\ bucket = <<>>
    /\ target = <<>>
    /\ runLog = <<>>
    /\ cur = <<>>

FilterIdle ==
    /\ fltPc = "idle"
    /\ fltKey = <<>>
    /\ fltDate = <<>>
    /\ fltFilter = <<>>
    /\ fltMatched = FALSE

KeyCoreIdle ==
    /\ keyPc = "idle"
    /\ keyDir = <<>>
    /\ keyImages = 0
    /\ keyVideos = 0
    /\ keyBuilt = <<>>
    /\ keyExtracted = <<>>

OrgIdle ==
    /\ orgPc = "idle"
    /\ orgDirs = <<>>
    /\ orgEntries = <<>>
    /\ orgCur = 0
    /\ orgInitial = <<>>

DateIdle ==
    /\ datePc = "idle"
    /\ dateFile = <<>>
    /\ dateIdx = 0
    /\ dateRet = <<>>

WalkIdle ==
    /\ walkPc = "idle"
    /\ walkRoot = <<>>
    /\ walkTree = {}
    /\ walkTotal = 0
    /\ walkJobs = <<>>
    /\ walkStaging = <<>>
    /\ walkTarget = <<>>

TempIdle ==
    /\ tempPrefix = "idle"
    /\ tempPc = <<>>
    /\ tempDirOf = <<>>
    /\ tempDirs = {}
    /\ tempFiles = {}
    /\ tempResult = <<>>

CountIdle ==
    /\ cmPc = "idle"
    /\ cmDir = {}
    /\ cmKey = <<>>

RaceIdle ==
    /\ bkPc = <<>>
    /\ bkArchive = <<>>
    /\ bkObject = <<>>

FaultIdle ==
    /\ dwPc = "idle"
    /\ dwFiles = 0
    /\ dwFailCopy = {}
    /\ dwTotal = 0
    /\ dwSent = 0
    /\ dwWalkErr = FALSE
    /\ dwRet = "none"

ByDateIdle ==
    /\ obPc = "idle"
    /\ obSource = <<>>
    /\ obTarget = <<>>
    /\ obEntries = <<>>
    /\ obCur = 0
    /\ obInitial = <<>>

ExtraIdle ==
    /\ OrgIdle /\ DateIdle /\ WalkIdle /\ TempIdle /\ CountIdle /\ RaceIdle /\ FaultIdle
    /\ ByDateIdle

\* Every small component but the named one is idle / is left unchanged.
OthersIdle(c) ==
    /\ KeyCoreIdle
    /\ FilterIdle
    /\ IF c = "org" THEN TRUE ELSE OrgIdle
    /\ IF c = "date" THEN TRUE ELSE DateIdle
    /\ IF c = "walk" THEN TRUE ELSE WalkIdle
    /\ IF c = "temp" THEN TRUE ELSE TempIdle
    /\ IF c = "count" THEN TRUE ELSE CountIdle
    /\ IF c = "race" THEN TRUE ELSE RaceIdle
    /\ IF c = "fault" THEN TRUE ELSE FaultIdle
    /\ IF c = "byDate" THEN TRUE ELSE ByDateIdle

OthersUnchanged(c) ==
    /\ UNCHANGED <<parseVars, poolVars, storeVars, renVars, keyCoreVars, filterVars>>
    /\ IF c = "org" THEN TRUE ELSE UNCHANGED orgVars
    /\ IF c = "date" THEN TRUE ELSE UNCHANGED dateVars
    /\ IF c = "walk" THEN TRUE ELSE UNCHANGED walkVars
    /\ IF c = "temp" THEN TRUE ELSE UNCHANGED tempVars
    /\ IF c = "count" THEN TRUE ELSE UNCHANGED countVars
    /\ IF c = "race" THEN TRUE ELSE UNCHANGED raceVars
    /\ IF c = "fault" THEN TRUE ELSE UNCHANGED faultVars
    /\ IF c = "byDate" THEN TRUE ELSE UNCHANGED byDateVars

KeyIdle == KeyCoreIdle /\ FilterIdle /\ ExtraIdle

RenIdle ==
    /\ renPc = "idle"
    /\ directory = <<>>
    /\ parentDirs = {}
    /\ renNewName = <<>>
    /\ dirRoot = <<>>
    /\ dirVideos = <<>>
    /\ renQueue = <<>>
    /\ renIdx = 0
    /\ renInitial = <<>>

(***************************************************************************)
(* Media parser: the copy/compress stage.                                  *)
(***************************************************************************)
DefaultNumWorkers == 100

\* The kinds of file the walk can meet: whether copying it fails, whether it
\* is JPEG-classified, whether compressing its staged copy fails, and
\* whether no date can be extracted from its staged copy.
FileKinds ==
    { [failCopy |-> FALSE, isJPEG |-> FALSE, failCompress |-> FALSE, failDate |-> FALSE],
      [failCopy |-> FALSE, isJPEG |-> TRUE,  failCompress |-> FALSE, failDate |-> FALSE],
      [failCopy |-> FALSE, isJPEG |-> TRUE,  failCompress |-> TRUE,  failDate |-> FALSE],
      [failCopy |-> TRUE,  isJPEG |-> FALSE, failCompress |-> FALSE, failDate |-> FALSE],
      [failCopy |-> FALSE, isJPEG |-> FALSE, failCompress |-> FALSE, failDate |-> TRUE] }

\* The progress channels Parse is called with: nil, or a channel nobody
\* receives from whose buffer is full or has free slots.
ProgressChans ==
    {[nil |-> TRUE, free |-> 0]} \cup {[nil |-> FALSE, free |-> n] : n \in 0..MaxProgressFree}

\* The ProgressEvent built for the channel (none is built for a nil channel).
Event(stage, current, total) ==
    IF progressChan.nil THEN lastEvent
    ELSE [Stage |-> stage, Current |-> current, Total |-> total]

\* select { case progressChan <- event: default: } under
\* if progressChan != nil: the event takes a free slot or is dropped.
Emit(ch) ==
    IF ch.nil \/ ch.free = 0 THEN ch ELSE [ch EXCEPT !.free = @ - 1]

\* numWorkers := opts.MaxConcurrency; if numWorkers <= 0 { numWorkers = 100 }
numWorkers ==
    IF opts.MaxConcurrency <= 0 THEN DefaultNumWorkers ELSE opts.MaxConcurrency

Workers == 1..numWorkers

ParseIdle ==
    /\ opts = [MaxConcurrency |-> 1, CompressJPEGs |-> FALSE]
    /\ files = <<>>
    /\ discoverIdx = 0
    /\ jobs = <<>>
    /\ jobsClosed = FALSE
    /\ errChan = <<>>
    /\ workerPc = <<>>
    /\ workerFile = <<>>
    /\ taken = <<>>
    /\ staged = {}
    /\ compressed = {}
    /\ parsePc = "idle"
    /\ parseErr = 0
    /\ topPc = "idle"
    /\ parseRet = "none"
    /\ stagingDir = FALSE
    /\ orgIdx = 0
    /\ targetDir = [moved |-> {}, renamed |-> FALSE]
    /\ organiserCalls = {}
    /\ progressChan = [nil |-> TRUE, free |-> 0]
    /\ processedCount = 0
    /\ totalCount = 0
    /\ lastEvent = <<>>

\* Parse up to wg.Wait() in copyAndCompressFiles: os.MkdirTemp has made the
\* staging directory (had it failed, Parse would have returned with nothing
\* made), the channels are made, the workers and the discovery goroutine are
\* started.
InitParse ==
    /\ opts \in [MaxConcurrency : 1..MaxWorkers, CompressJPEGs : BOOLEAN]
    /\ files \in SeqsUpTo(FileKinds, MaxFiles)
    /\ discoverIdx = 0
    /\ jobs = <<>>
    /\ jobsClosed = FALSE
    /\ errChan = <<>>
    /\ workerPc = [w \in Workers |-> "recv"]
    /\ workerFile = [w \in Workers |-> 0]
    /\ taken = [f \in 1..Len(files) |-> 0]
    /\ staged = {}
    /\ compressed = {}
    /\ parsePc = "wait"
    /\ parseErr = 0
    /\ topPc = "copy"
    /\ parseRet = "none"
    /\ stagingDir = TRUE
    /\ orgIdx = 0
    /\ targetDir = [moved |-> {}, renamed |-> FALSE]
    /\ organiserCalls = {}
    /\ progressChan \in ProgressChans
    /\ processedCount = 0
    /\ totalCount = Len(files)
    /\ lastEvent = <<>>

\* discoverFiles: jobs <- fileToProcess{...}; blocks while the buffer is full.
DiscoverSend ==
    /\ parsePc = "wait"
    /\ ~jobsClosed
    /\ discoverIdx < Len(files)
    /\ Len(jobs) < numWorkers
    /\ jobs' = Append(jobs, discoverIdx + 1)
    /\ discoverIdx' = discoverIdx + 1
    /\ UNCHANGED <<opts, files, jobsClosed, errChan, workerPc, workerFile, taken,
                   staged, compressed, parsePc, parseErr>>
    /\ UNCHANGED <<parseTopVars, progressVars>>
    /\ UNCHANGED <<poolVars, storeVars, keyVars, renVars>>

\* discoverFiles: defer close(jobs), once the walk has returned.
DiscoverClose ==
    /\ parsePc = "wait"
    /\ ~jobsClosed
    /\ discoverIdx = Len(files)
    /\ jobsClosed' = TRUE
    /\ UNCHANGED <<opts, files, discoverIdx, jobs, errChan, workerPc, workerFile,
                   taken, staged, compressed, parsePc, parseErr>>
    /\ UNCHANGED <<parseTopVars, progressVars>>
    /\ UNCHANGED <<poolVars, storeVars, keyVars, renVars>>

\* A worker that adds two to the shared counter for every job.
WorkerReceiveCountingTwice(w) ==
    /\ workerPc[w] = "recv"
    /\ jobs # <<>>
    /\ workerFile' = [workerFile EXCEPT ![w] = Head(jobs)]
    /\ jobs' = Tail(jobs)
    /\ taken' = [taken EXCEPT ![Head(jobs)] = @ + 1]
    /\ workerPc' = [workerPc EXCEPT ![w] = "copy"]
    /\ processedCount' = processedCount + 2
    /\ UNCHANGED <<opts, files, discoverIdx, jobsClosed, errChan, staged,
                   compressed, parsePc, parseErr>>
    /\ UNCHANGED <<parseTopVars, progressChan, totalCount, lastEvent>>
    /\ UNCHANGED <<poolVars, storeVars, keyVars, renVars>>

\* processFileWorker: for file := range jobs, and processedCount.Add(1), the
\* first statement of the loop body.
WorkerReceive(w) ==
    /\ workerPc[w] = "recv"
    /\ jobs # <<>>
    /\ workerFile' = [workerFile EXCEPT ![w] = Head(jobs)]
    /\ jobs' = Tail(jobs)
    /\ taken' = [taken EXCEPT ![Head(jobs)] = @ + 1]
    /\ workerPc' = [workerPc EXCEPT ![w] = "copy"]
    /\ processedCount' = processedCount + 1
    /\ UNCHANGED <<opts, files, discoverIdx, jobsClosed, errChan, staged,
                   compressed, parsePc, parseErr>>
    /\ UNCHANGED <<parseTopVars, progressChan, totalCount, lastEvent>>
    /\ UNCHANGED <<poolVars, storeVars, keyVars, renVars>>

\* A worker that leaves its loop as soon as the channel is closed, jobs
\* still in the buffer or not.
WorkerExitEarly(w) ==
    /\ workerPc[w] = "recv"
    /\ jobsClosed
    /\ workerPc' = [workerPc EXCEPT ![w] = "done"]
    /\ UNCHANGED <<opts, files, discoverIdx, jobs, jobsClosed, errChan, workerFile,
                   taken, staged, compressed, parsePc, parseErr>>
    /\ UNCHANGED <<parseTopVars, progressVars>>
    /\ UNCHANGED <<poolVars, storeVars, keyVars, renVars>>

\* processFileWorker: the range loop ends on the closed, drained channel and
\* the deferred wg.Done() runs.
WorkerExit(w) ==
    /\ workerPc[w] = "recv"
    /\ jobs = <<>>
    /\ jobsClosed
    /\ workerPc' = [workerPc EXCEPT ![w] = "done"]
    /\ UNCHANGED <<opts, files, discoverIdx, jobs, jobsClosed, errChan, workerFile,
                   taken, staged, compressed, parsePc, parseErr>>
    /\ UNCHANGED <<parseTopVars, progressVars>>
    /\ UNCHANGED <<poolVars, storeVars, keyVars, renVars>>

\* A worker whose progress event is a plain channel send: it waits for a
\* free slot.
WorkerCopyBlocking(w) ==
    /\ workerPc[w] = "copy"
    /\ progressChan.nil \/ progressChan.free > 0
    /\ progressChan' = Emit(progressChan)
    /\ lastEvent' = Event("copying", processedCount, totalCount)
    /\ UNCHANGED <<processedCount, totalCount>>
    /\ LET f == workerFile[w] IN
         IF files[f].failCopy
         THEN /\ workerPc' = [workerPc EXCEPT ![w] = "sendErr"]
              /\ UNCHANGED staged
         ELSE /\ staged' = staged \cup {f}
              /\ workerPc' = [workerPc EXCEPT ![w] =
                     IF files[f].isJPEG /\ opts.CompressJPEGs
                     THEN "compress" ELSE "recv"]
    /\ UNCHANGED <<opts, files, discoverIdx, jobs, jobsClosed, errChan, workerFile,
                   taken, compressed, parsePc, parseErr>>
    /\ UNCHANGED parseTopVars
    /\ UNCHANGED <<poolVars, storeVars, keyVars, renVars>>

\* processFileWorker: the "copying" progress event, copyFilePreserveTime,
\* then the choice of the next step.
WorkerCopy(w) ==
    /\ workerPc[w] = "copy"
    /\ progressChan' = Emit(progressChan)
    /\ lastEvent' = Event("copying", processedCount, totalCount)
    /\ UNCHANGED <<processedCount, totalCount>>
    /\ LET f == workerFile[w] IN
         IF files[f].failCopy
         THEN /\ workerPc' = [workerPc EXCEPT ![w] = "sendErr"]
              /\ UNCHANGED staged
         ELSE /\ staged' = staged \cup {f}
              /\ workerPc' = [workerPc EXCEPT ![w] =
                     IF files[f].isJPEG /\ opts.CompressJPEGs
                     THEN "compress" ELSE "recv"]
    /\ UNCHANGED <<opts, files, discoverIdx, jobs, jobsClosed, errChan, workerFile,
                   taken, compressed, parsePc, parseErr>>
    /\ UNCHANGED parseTopVars
    /\ UNCHANGED <<poolVars, storeVars, keyVars, renVars>>

\* processFileWorker: the "compressing" progress event, then
\* p.compressor.CompressFile on the staged copy.
WorkerCompress(w) ==
    /\ workerPc[w] = "compress"
    /\ progressChan' = Emit(progressChan)
    /\ lastEvent' = Event("compressing", processedCount, totalCount)
    /\ UNCHANGED <<processedCount, totalCount>>
    /\ LET f == workerFile[w] IN
         IF files[f].failCompress
         THEN /\ workerPc' = [workerPc EXCEPT ![w] = "sendErr"]
              /\ UNCHANGED compressed
         ELSE /\ compressed' = compressed \cup {f}
              /\ workerPc' = [workerPc EXCEPT ![w] = "recv"]
    /\ UNCHANGED <<opts, files, discoverIdx, jobs, jobsClosed, errChan, workerFile,
                   taken, staged, parsePc, parseErr>>
    /\ UNCHANGED parseTopVars
    /\ UNCHANGED <<poolVars, storeVars, keyVars, renVars>>

\* processFileWorker: errChan <- fmt.Errorf(...); continue.  errChan was made
\* with capacity numWorkers and nothing receives from it before wg.Wait()
\* returns, so the send blocks while the buffer is full.
WorkerSendErr(w) ==
    /\ workerPc[w] = "sendErr"
    /\ Len(errChan) < numWorkers
    /\ errChan' = Append(errChan, workerFile[w])
    /\ workerPc' = [workerPc EXCEPT ![w] = "recv"]
    /\ UNCHANGED <<opts, files, discoverIdx, jobs, jobsClosed, workerFile, taken,
                   staged, compressed, parsePc, parseErr>>
    /\ UNCHANGED <<parseTopVars, progressVars>>
    /\ UNCHANGED <<poolVars, storeVars, keyVars, renVars>>

\* copyAndCompressFiles collecting the errors with no wg.Wait() before it.
CollectErrorsWithoutWait ==
    /\ parsePc = "wait"
    /\ parsePc' = "returned"
    /\ parseErr' = IF errChan = <<>> THEN 0 ELSE errChan[1]
    /\ UNCHANGED <<opts, files, discoverIdx, jobs, jobsClosed, errChan, workerPc,
                   workerFile, taken, staged, compressed>>
    /\ UNCHANGED <<parseTopVars, progressVars>>
    /\ UNCHANGED <<poolVars, storeVars, keyVars, renVars>>

\* copyAndCompressFiles after wg.Wait(): close(errChan), collect, return the
\* first error if any.
CollectErrors ==
    /\ parsePc = "wait"
    /\ \A w \in Workers : workerPc[w] = "done"
    /\ parsePc' = "returned"
    /\ parseErr' = IF errChan = <<>> THEN 0 ELSE errChan[1]
    /\ UNCHANGED <<opts, files, discoverIdx, jobs, jobsClosed, errChan, workerPc,
                   workerFile, taken, staged, compressed>>
    /\ UNCHANGED <<parseTopVars, progressVars>>
    /\ UNCHANGED <<poolVars, storeVars, keyVars, renVars>>

\* A return of Parse that leaves the staging directory behind.
ParseReturnNoCleanup(ret) ==
    /\ topPc' = "returned"
    /\ parseRet' = ret
    /\ stagingDir' = stagingDir

\* Parse returns ret; the deferred os.RemoveAll(tmpTarget) removes the
\* staging directory.
ParseReturn(ret) ==
    /\ topPc' = "returned"
    /\ parseRet' = ret
    /\ stagingDir' = FALSE

\* A Parse that goes on to the organiser whatever the copy stage returned.
ParseAfterCopyIgnoringErrors ==
    /\ topPc = "copy"
    /\ parsePc = "returned"
    /\ topPc' = "organise"
    /\ organiserCalls' = organiserCalls \cup {"OrganiseByDate"}
    /\ UNCHANGED <<parseRet, stagingDir, orgIdx, targetDir>>
    /\ UNCHANGED <<opts, files, discoverIdx, jobs, jobsClosed, errChan, workerPc,
                   workerFile, taken, staged, compressed, parsePc, parseErr,
                   progressVars>>
    /\ UNCHANGED <<poolVars, storeVars, keyVars, renVars>>

\* Parse after copyAndCompressFiles: return its error, wrapped, or call
\* OrganiseByDate on the staging directory.
ParseAfterCopy ==
    /\ topPc = "copy"
    /\ parsePc = "returned"
    /\ IF parseErr # 0
       THEN /\ ParseReturn("errCopy")
            /\ UNCHANGED organiserCalls
       ELSE /\ topPc' = "organise"
            /\ organiserCalls' = organiserCalls \cup {"OrganiseByDate"}
            /\ UNCHANGED <<parseRet, stagingDir>>
    /\ UNCHANGED <<orgIdx, targetDir>>
    /\ UNCHANGED <<opts, files, discoverIdx, jobs, jobsClosed, errChan, workerPc,
                   workerFile, taken, staged, compressed, parsePc, parseErr,
                   progressVars>>
    /\ UNCHANGED <<poolVars, storeVars, keyVars, renVars>>

\* The staged files OrganiseByDate's loop has not handled yet.  os.ReadDir
\* lists the staging directory in name order; the model takes the order of
\* discovery for it.
OrganiseLeft == {f \in staged : f > orgIdx}

\* OrganiseByDate, one turn of its loop: the "organising" progress event,
\* GetFileDate, whose error ends Parse, and the move of the file into its
\* date directory under the target directory.
OrganiseFile ==
    /\ topPc = "organise"
    /\ OrganiseLeft # {}
    /\ LET f == CHOOSE x \in OrganiseLeft : \A y \in OrganiseLeft : x <= y IN
       /\ progressChan' = Emit(progressChan)
       /\ lastEvent' = Event("organising", Cardinality({x \in staged : x <= f}),
                             Cardinality(staged))
       /\ orgIdx' = f
       /\ IF files[f].failDate
          THEN /\ ParseReturn("errOrganise")
               /\ UNCHANGED targetDir
          ELSE /\ targetDir' = [targetDir EXCEPT !.moved = @ \cup {f}]
               /\ UNCHANGED <<topPc, parseRet, stagingDir>>
    /\ UNCHANGED <<organiserCalls, processedCount, totalCount>>
    /\ UNCHANGED <<opts, files, discoverIdx, jobs, jobsClosed, errChan, workerPc,
                   workerFile, taken, staged, compressed, parsePc, parseErr>>
    /\ UNCHANGED <<poolVars, storeVars, keyVars, renVars>>

\* OrganiseByDate has returned nil; Parse calls
\* OrganiseVideosAndRenameImages: for the date directories of the target the
\* organiser's progress event, the move of the videos and the renaming with
\* the renamer's progress event, which succeed or fail; then Parse returns.
OrganiseVideosAndRenameImages ==
    /\ topPc = "organise"
    /\ OrganiseLeft = {}
    /\ organiserCalls' = organiserCalls \cup {"OrganiseVideosAndRenameImages"}
    /\ progressChan' = IF targetDir.moved = {} THEN progressChan
                       ELSE Emit(Emit(progressChan))
    /\ \E ok \in BOOLEAN :
         /\ targetDir' = [targetDir EXCEPT !.renamed = (targetDir.moved # {})]
         /\ ParseReturn(IF ok THEN "nil" ELSE "errVideos")
    /\ UNCHANGED <<orgIdx, processedCount, totalCount, lastEvent>>
    /\ UNCHANGED <<opts, files, discoverIdx, jobs, jobsClosed, errChan, workerPc,
                   workerFile, taken, staged, compressed, parsePc, parseErr>>
    /\ UNCHANGED <<poolVars, storeVars, keyVars, renVars>>

NextParse ==
    \/ DiscoverSend
    \/ DiscoverClose
    \/ \E w \in Workers : WorkerReceive(w)
    \/ \E w \in Workers : WorkerExit(w)
    \/ \E w \in Workers : WorkerCopy(w)
    \/ \E w \in Workers : WorkerCompress(w)
    \/ \E w \in Workers : WorkerSendErr(w)
    \/ CollectErrors
    \/ ParseAfterCopy
    \/ OrganiseFile
    \/ OrganiseVideosAndRenameImages

ParseStart == InitParse /\ PoolIdle /\ StoreIdle /\ KeyIdle /\ RenIdle

SpecParse == ParseStart /\ [][NextParse]_vars

\* C1: the copy/compress stage terminates for every pool size and every set
\* of discovered files: as long as copyAndCompressFiles has not returned,
\* some goroutine of the stage (discovery, a worker, or the caller after
\* wg.Wait) can take a step, for any number of failing jobs.
C1_CopyStageTerminates == parsePc = "returned" \/ ENABLED NextParse


\* C12: once the copy/compress stage has returned after a worker reported
\* an error, its return is the first error recorded, no organiser method has
\* been invoked, nothing has been moved into or renamed in the target
\* directory, and a Parse that has returned has returned the copy error.
C12_WorkerErrorStopsParse ==
    (parsePc = "returned" /\ errChan # <<>>) =>
        /\ parseErr = errChan[1]
        /\ organiserCalls = {}
        /\ targetDir = [moved |-> {}, renamed |-> FALSE]
        /\ topPc = "returned" => parseRet = "errCopy"

\* C12 witness: Parse has returned the copy error after two workers'
\* errors were recorded.
C12_Witness ==
    /\ topPc = "returned"
    /\ parseRet = "errCopy"
    /\ Len(errChan) = 2
    /\ parseErr = errChan[1]
    /\ organiserCalls = {}

\* C13: the job queue is closed only after discovery has sent every file; no
\* job is ever taken twice; and when the stage has returned the queue is
\* empty, every worker has left its loop, and every discovered job was taken
\* exactly once and processed: copied unless its copy failed, and compressed
\* when it is a JPEG, compression is on and neither step failed.
C13_EveryJobProcessedOnce ==
    /\ jobsClosed => discoverIdx = Len(files)
    /\ \A f \in DOMAIN taken : taken[f] <= 1
    /\ parsePc = "returned" =>
          /\ jobsClosed /\ jobs = <<>>
          /\ \A w \in Workers : workerPc[w] = "done"
          /\ \A f \in 1..Len(files) :
                /\ taken[f] = 1
                /\ (f \in staged) <=> ~files[f].failCopy
                /\ (f \in compressed) <=>
                       (/\ files[f].isJPEG /\ opts.CompressJPEGs
                        /\ ~files[f].failCopy /\ ~files[f].failCompress)

\* C13 witness: the stage has returned with two workers and three files, one
\* of them compressed.
C13_Witness ==
    /\ parsePc = "returned"
    /\ numWorkers = 2
    /\ Len(files) = 3
    /\ Cardinality(staged) = 3
    /\ compressed # {}

\* C14: when Parse has returned, on whatever path, the staging directory
\* does not exist.
C14_StagingRemovedOnReturn == topPc = "returned" => ~stagingDir

\* C14 witness: Parse has returned the error of OrganiseByDate, after files
\* were staged, and the staging directory is gone.
C14_Witness ==
    /\ topPc = "returned"
    /\ parseRet = "errOrganise"
    /\ staged # {}
    /\ ~stagingDir

\* The staged files OrganiseByDate moves: those before the first one
\* without a date.
ExpectedMoved ==
    {f \in staged : \A g \in staged : g <= f => ~files[g].failDate}

\* C15: an emission attempt never blocks (a worker about to emit and copy or
\* compress, and the organiser about to emit and move, can always take their
\* step, whatever the state of the progress channel); Parse stops short of
\* returning only where a worker waits on the error channel; and the
\* outcome of a returned Parse is a function of the files alone, hence the
\* same for a nil channel and for a full one: what is staged, compressed
\* and moved, and which of the errors is returned.
C15_ProgressNeverBlocks ==
    /\ \A w \in Workers :
          /\ workerPc[w] = "copy" => ENABLED WorkerCopy(w)
          /\ workerPc[w] = "compress" => ENABLED WorkerCompress(w)
    /\ topPc = "organise" => ENABLED (OrganiseFile \/ OrganiseVideosAndRenameImages)
    /\ \/ topPc = "returned"
       \/ ENABLED NextParse
       \/ \E w \in Workers : workerPc[w] = "sendErr"
    /\ topPc = "returned" =>
          /\ staged = {f \in 1..Len(files) : ~files[f].failCopy}
          /\ compressed = {f \in staged : /\ files[f].isJPEG /\ opts.CompressJPEGs
                                           /\ ~files[f].failCompress}
          /\ (parseRet = "errCopy") <=>
                 (\E f \in 1..Len(files) :
                     \/ files[f].failCopy
                     \/ files[f].isJPEG /\ opts.CompressJPEGs /\ files[f].failCompress)
          /\ parseRet # "errCopy" =>
                 /\ targetDir.moved = ExpectedMoved
                 /\ (parseRet = "errOrganise") <=> (\E f \in staged : files[f].failDate)
          /\ parseRet = "errCopy" => targetDir.moved = {}

\* C15 witness: Parse has returned nil with a progress channel that is not
\* nil and has no free slot, after three files were copied, one compressed,
\* and all three moved.
C15_Witness ==
    /\ topPc = "returned"
    /\ parseRet = "nil"
    /\ ~progressChan.nil /\ progressChan.free = 0
    /\ Cardinality(targetDir.moved) = 3
    /\ compressed # {}

DatePrefix ==
    <<"2", "0", "2", "3", " ", "0", "6", " ", "J", "u", "n", "e", " ", "1", "5">>

TarGzExt == <<".", "t", "a", "r", ".", "g", "z">>

\* s3Key := fmt.Sprintf("%s (%d images, %d videos).tar.gz", dirName, imageCount, videoCount)
BuildKey(dirName, imageCount, videoCount) ==
    dirName \o <<" ", "(">> \o Itoa(imageCount)
            \o <<" ", "i", "m", "a", "g", "e", "s", ",", " ">> \o Itoa(videoCount)
            \o <<" ", "v", "i", "d", "e", "o", "s", ")">> \o TarGzExt

\* extractDirNameFromKey: strings.TrimSuffix(key, ".tar.gz"), then cut at the
\* first " (" found by strings.Index.
extractDirNameFromKey(key) ==
    LET name == TrimSuffix(key, TarGzExt)
        idx == Index(name, <<" ", "(">>)
    IN IF idx # -1 THEN SubSeq(name, 1, idx) ELSE name

\* Directory names: the date tokens, optionally followed by a space and a
\* free-text suffix.
SuffixChars == {"a", " ", "(", ")"}

DirNameUniverse ==
    {DatePrefix} \cup
    {DatePrefix \o <<" ">> \o sfx :
        sfx \in UNION {[1..k -> SuffixChars] : k \in 1..MaxSuffixLen}}

InitKey ==
    /\ keyPc = "start"
    /\ keyDir \in DirNameUniverse
    /\ keyImages \in 0..MaxCount
    /\ keyVideos \in 0..MaxCount
    /\ keyBuilt = <<>>
    /\ keyExtracted = <<>>
    /\ FilterIdle
    /\ ExtraIdle

\* backupDirectory builds the key of the directory.
KeyBuild ==
    /\ keyPc = "start"
    /\ keyBuilt' = BuildKey(keyDir, keyImages, keyVideos)
    /\ keyPc' = "built"
    /\ UNCHANGED <<keyDir, keyImages, keyVideos, keyExtracted, filterVars, extraVars>>
    /\ UNCHANGED <<parseVars, poolVars, storeVars, renVars>>

\* restoreObject derives the directory name from the key.
KeyExtract ==
    /\ keyPc = "built"
    /\ keyExtracted' = extractDirNameFromKey(keyBuilt)
    /\ keyPc' = "done"
    /\ UNCHANGED <<keyDir, keyImages, keyVideos, keyBuilt, filterVars, extraVars>>
    /\ UNCHANGED <<parseVars, poolVars, storeVars, renVars>>

NextKey ==
    \/ KeyBuild
    \/ KeyExtract

KeyStart == InitKey /\ ParseIdle /\ PoolIdle /\ StoreIdle /\ RenIdle

SpecKey == KeyStart /\ [][NextKey]_vars

\* C8: key/name round trip: for every directory name d (date tokens plus an
\* optional suffix that may contain spaces and parentheses) and all counts
\* n, m, extractDirNameFromKey of the key built from (d, n, m) is d.
C8_KeyRoundTrip == keyPc = "done" => keyExtracted = keyDir

(***************************************************************************)
(* runWorkerPool (s3_backup.go), shared by backup and restore.             *)
(***************************************************************************)
\* The workers started by runWorkerPool: for i := range maxConcurrent
PoolWorkers == DOMAIN wpc

\* The first position of a worker inside the worker function.
EntryPc ==
    CASE poolMode = "backup" -> "head"
      [] poolMode = "restore" -> "stat"
      [] OTHER -> "call"

\* runWorkerPool: make the two channels with capacity len(jobs) and start
\* maxConcurrent workers.
StartWorkers(js, mc) ==
    /\ poolJobs' = js
    /\ maxConcurrent' = mc
    /\ sendIdx' = 0
    /\ jobsChan' = <<>>
    /\ jobsChanClosed' = FALSE
    /\ results' = <<>>
    /\ wpc' = [w \in 1..mc |-> "recv"]
    /\ wjob' = [w \in 1..mc |-> 0]
    /\ wloc' = [w \in 1..mc |-> <<>>]
    /\ handed' = [j \in 1..Len(js) |-> 0]
    /\ poolPc' = "send"
    /\ poolRet' = "none"

\* Collect errors: an error is returned iff some result is not nil.
PoolResult(rs) == IF \E i \in 1..Len(rs) : ~rs[i] THEN "error" ELSE "nil"

\* runWorkerPool called with a worker function whose outcome per job is given.
InitPool ==
    /\ poolMode = "abstract"
    /\ poolJobs \in SeqsUpTo([fails : BOOLEAN], MaxJobs)
    /\ maxConcurrent \in 0..MaxWorkers
    /\ sendIdx = 0
    /\ jobsChan = <<>>
    /\ jobsChanClosed = FALSE
    /\ results = <<>>
    /\ wpc = <<>>
    /\ wjob = <<>>
    /\ wloc = <<>>
    /\ handed = <<>>
    /\ poolPc = "start"
    /\ poolRet = "none"

\* runWorkerPool: if len(jobs) == 0 { return nil }; else start the workers.
PoolStart ==
    /\ poolMode = "abstract"
    /\ poolPc = "start"
    /\ IF Len(poolJobs) = 0
       THEN /\ poolPc' = "returned"
            /\ poolRet' = "nil"
            /\ UNCHANGED <<poolJobs, maxConcurrent, sendIdx, jobsChan, jobsChanClosed,
                           results, wpc, wjob, wloc, handed>>
       ELSE StartWorkers(poolJobs, maxConcurrent)
    /\ UNCHANGED <<poolMode, storeVars>>
    /\ UNCHANGED <<parseVars, keyVars, renVars>>

\* runWorkerPool: jobsChan <- job
PoolSend ==
    /\ poolPc = "send"
    /\ sendIdx < Len(poolJobs)
    /\ Len(jobsChan) < Len(poolJobs)
    /\ jobsChan' = Append(jobsChan, sendIdx + 1)
    /\ sendIdx' = sendIdx + 1
    /\ UNCHANGED <<poolMode, poolJobs, maxConcurrent, jobsChanClosed, results, wpc,
                   wjob, wloc, handed, poolPc, poolRet, storeVars>>
    /\ UNCHANGED <<parseVars, keyVars, renVars>>

\* runWorkerPool: close(jobsChan), then wg.Wait()
PoolClose ==
    /\ poolPc = "send"
    /\ sendIdx = Len(poolJobs)
    /\ jobsChanClosed' = TRUE
    /\ poolPc' = "wait"
    /\ UNCHANGED <<poolMode, poolJobs, maxConcurrent, sendIdx, jobsChan, results, wpc,
                   wjob, wloc, handed, poolRet, storeVars>>
    /\ UNCHANGED <<parseVars, keyVars, renVars>>

\* worker: for job := range jobsChan { ... workerFunc(job) ... }
PoolTake(w) ==
    /\ wpc[w] = "recv"
    /\ jobsChan # <<>>
    /\ wjob' = [wjob EXCEPT ![w] = Head(jobsChan)]
    /\ jobsChan' = Tail(jobsChan)
    /\ handed' = [handed EXCEPT ![Head(jobsChan)] = @ + 1]
    /\ wpc' = [wpc EXCEPT ![w] = EntryPc]
    /\ UNCHANGED <<poolMode, poolJobs, maxConcurrent, sendIdx, jobsChanClosed, results,
                   wloc, poolPc, poolRet, storeVars>>
    /\ UNCHANGED <<parseVars, keyVars, renVars>>

\* worker: the range loop ends on the closed, drained channel; wg.Done()
PoolWorkerExit(w) ==
    /\ wpc[w] = "recv"
    /\ jobsChan = <<>>
    /\ jobsChanClosed
    /\ wpc' = [wpc EXCEPT ![w] = "done"]
    /\ UNCHANGED <<poolMode, poolJobs, maxConcurrent, sendIdx, jobsChan, jobsChanClosed,
                   results, wjob, wloc, handed, poolPc, poolRet, storeVars>>
    /\ UNCHANGED <<parseVars, keyVars, renVars>>

\* worker: results <- workerFunc(job), and on to the next job.  ok is TRUE
\* for a nil error.
SendResult(w, ok) ==
    /\ Len(results) < Len(poolJobs)
    /\ results' = Append(results, ok)
    /\ wpc' = [wpc EXCEPT ![w] = "recv"]
    /\ wloc' = [wloc EXCEPT ![w] = <<>>]

\* A fail-fast worker: it stops at the first failing job.
WorkerFuncFailFast(w) ==
    /\ poolMode = "abstract"
    /\ wpc[w] = "call"
    /\ Len(results) < Len(poolJobs)
    /\ results' = Append(results, ~poolJobs[wjob[w]].fails)
    /\ wpc' = [wpc EXCEPT ![w] = IF poolJobs[wjob[w]].fails THEN "done" ELSE "recv"]
    /\ UNCHANGED <<poolMode, poolJobs, maxConcurrent, sendIdx, jobsChan, jobsChanClosed,
                   wjob, wloc, handed, poolPc, poolRet, storeVars>>
    /\ UNCHANGED <<parseVars, keyVars, renVars>>

\* worker: the call of the worker function on the job, and the send of its
\* result.
WorkerFunc(w) ==
    /\ poolMode = "abstract"
    /\ wpc[w] = "call"
    /\ SendResult(w, ~poolJobs[wjob[w]].fails)
    /\ UNCHANGED <<poolMode, poolJobs, maxConcurrent, sendIdx, jobsChan, jobsChanClosed,
                   wjob, handed, poolPc, poolRet, storeVars>>
    /\ UNCHANGED <<parseVars, keyVars, renVars>>

\* runWorkerPool after wg.Wait(): close(results), count, return.
PoolCollect ==
    /\ poolMode = "abstract"
    /\ poolPc = "wait"
    /\ \A w \in PoolWorkers : wpc[w] = "done"
    /\ poolRet' = PoolResult(results)
    /\ poolPc' = "returned"
    /\ UNCHANGED <<poolMode, poolJobs, maxConcurrent, sendIdx, jobsChan, jobsChanClosed,
                   results, wpc, wjob, wloc, handed, storeVars>>
    /\ UNCHANGED <<parseVars, keyVars, renVars>>

NextPool ==
    \/ PoolStart
    \/ PoolSend
    \/ PoolClose
    \/ \E w \in PoolWorkers : PoolTake(w)
    \/ \E w \in PoolWorkers : PoolWorkerExit(w)
    \/ \E w \in PoolWorkers : WorkerFunc(w)
    \/ PoolCollect

PoolOnlyStart == InitPool /\ ParseIdle /\ StoreIdle /\ KeyIdle /\ RenIdle

SpecPool == PoolOnlyStart /\ [][NextPool]_vars

\* C2: when runWorkerPool (pool size >= 1, at least one job) has returned,
\* every job was handed to the worker function exactly once, every worker
\* has exited, every job has produced a result (successes + failures = number
\* of jobs), and the return is an error iff at least one job failed.
C2_PoolProcessesEveryJobOnce ==
    (poolMode = "abstract" /\ poolPc = "returned" /\ Len(poolJobs) > 0
        /\ maxConcurrent >= 1) =>
        /\ \A j \in 1..Len(poolJobs) : handed[j] = 1
        /\ \A w \in PoolWorkers : wpc[w] = "done"
        /\ Len(results) = Len(poolJobs)
        /\ Cardinality({i \in 1..Len(results) : results[i]})
             = Cardinality({j \in 1..Len(poolJobs) : ~poolJobs[j].fails})
        /\ Cardinality({i \in 1..Len(results) : ~results[i]})
             = Cardinality({j \in 1..Len(poolJobs) : poolJobs[j].fails})
        /\ (poolRet = "error") <=> (\E j \in 1..Len(poolJobs) : poolJobs[j].fails)
        /\ poolRet \in {"nil", "error"}

\* C2 witness: a pool of two workers has returned from three jobs of which
\* the first failed and a later one succeeded.
C2_Witness ==
    /\ poolMode = "abstract" /\ poolPc = "returned"
    /\ maxConcurrent = 2 /\ Len(poolJobs) = 3
    /\ poolJobs[1].fails /\ ~poolJobs[3].fails
    /\ poolRet = "error"

\* C11: when runWorkerPool called with pool size 0 and at least one job has
\* returned, every job was handed to the worker function once and the
\* return is what a pool of the default size returns: an error iff some job
\* fails.
C11_PoolSizeZeroFallsBack ==
    (poolMode = "abstract" /\ poolPc = "returned" /\ Len(poolJobs) > 0
        /\ maxConcurrent = 0) =>
        /\ \A j \in 1..Len(poolJobs) : handed[j] = 1
        /\ Len(results) = Len(poolJobs)
        /\ (poolRet = "error") <=> (\E j \in 1..Len(poolJobs) : poolJobs[j].fails)

(***************************************************************************)
(* Backup and restore (s3_backup.go).                                      *)
(*                                                                         *)
(* A directory is a function from the relative paths of its regular files  *)
(* to [data, mode]; a tree is a function from directory names to           *)
(* directories.  The bucket is a function from keys to archives.           *)
(***************************************************************************)
MaxData == 2         \* file contents are 1..MaxData
MaxEdits == 1        \* most changes made to the source tree between calls
MaxFaults == 1       \* most failures of the store over all calls

ModeDefault == 420   \* 0644
ModePrivate == ModeDefault - 36   \* 0600: no access for group and others

PJpg == <<"p", ".", "j", "p", "g">>
VMov == <<"v", "i", "d", "e", "o", "s", "/", "v", ".", "m", "o", "v">>

EmptyFn == [x \in {} |-> 0]

\* The directories the model backs up: an image p.jpg alone, the same
\* name with other content and private mode, and the image with a video
\* videos/v.mov.
Contents ==
    { (PJpg :> [data |-> 1, mode |-> ModeDefault]),
      (PJpg :> [data |-> MaxData, mode |-> ModePrivate]),
      (PJpg :> [data |-> 1, mode |-> ModeDefault]) @@
          (VMov :> [data |-> 1, mode |-> ModeDefault]) }

\* "2023 06 June 15 t" and "2023 06 June 15 t (b)"
StoreDirNames ==
    {DatePrefix \o <<" ", "t">>, DatePrefix \o <<" ", "t", " ", "(", "b", ")">>}

\* The source trees: no directory, one directory of either name, or both
\* (the second one then holding the image alone).
SourceTrees ==
    {EmptyFn}
    \cup {d :> c : d \in StoreDirNames, c \in Contents}
    \cup {((DatePrefix \o <<" ", "t">>) :> c) @@
           ((DatePrefix \o <<" ", "t", " ", "(", "b", ")">>) :>
               (PJpg :> [data |-> 1, mode |-> ModeDefault])) : c \in Contents}

\* A directory that is in the restore target before any restore.
OldContent == (PJpg :> [data |-> MaxData + 1, mode |-> ModeDefault])

TargetTrees == {EmptyFn, (DatePrefix \o <<" ", "t", " ", "(", "b", ")">>) :> OldContent}

imageExts ==
    { <<".", "j", "p", "g">>, <<".", "j", "p", "e", "g">>,
      <<".", "h", "e", "i", "c">>, <<".", "p", "n", "g">> }

videoExts ==
    { <<".", "m", "o", "v">>, <<".", "m", "p", "4">>, <<".", "a", "v", "i">>,
      <<".", "m", "k", "v">>, <<".", "w", "e", "b", "m">>, <<".", "f", "l", "v">>,
      <<".", "w", "m", "v">>, <<".", "m", "4", "v">>, <<".", "3", "g", "p">>,
      <<".", "m", "2", "t", "s">>, <<".", "m", "t", "s">>, <<".", "o", "g", "v">>,
      <<".", "t", "s">> }

\* extensions.IsImage / IsVideo: strings.ToLower(filepath.Ext(filePath)) in the list
IsImage(filePath) == ToLower(Ext(filePath)) \in imageExts

IsVideo(filePath) == ToLower(Ext(filePath)) \in videoExts

VideosPrefix == <<"v", "i", "d", "e", "o", "s", "/">>

HasPrefix(str, prefix) ==
    Len(str) >= Len(prefix) /\ SubSeq(str, 1, Len(prefix)) = prefix

InSubdir(path) == \E i \in 1..Len(path) : path[i] = "/"

\* countMediaFiles: the images among the files directly in the directory,
\* the videos among the files directly in its videos subdirectory.
countMediaFiles(dir) ==
    [images |-> Cardinality({f \in DOMAIN dir : ~InSubdir(f) /\ IsImage(f)}),
     videos |-> Cardinality({f \in DOMAIN dir :
                    /\ HasPrefix(f, VideosPrefix)
                    /\ ~InSubdir(SubSeq(f, Len(VideosPrefix) + 1, Len(f)))
                    /\ IsVideo(f)})]

\* createTarGz: one header per walked entry, named baseName/relPath, with the
\* mode of the entry, followed by the content of a regular file.
createTarGz(dirName, dir) == [base |-> dirName, entries |-> dir]

\* calculateMD5 of the archive file.  The digest is taken to be
\* collision-free: equal digests mean equal archives.
calculateMD5(archive) == archive

\* The ETag S3 reports for an object stored by one PutObject: its quoted MD5.
ETagOf(archive) == <<"quote", calculateMD5(archive), "quote">>

\* extractETag: "" for a missing ETag, else the value without its quotes.
extractETag(etag) ==
    IF etag = <<>> THEN <<>>
    ELSE IF Len(etag) >= 2 /\ etag[1] = "quote" /\ etag[Len(etag)] = "quote"
         THEN SubSeq(etag, 2, Len(etag) - 1)
         ELSE etag

\* isNotFoundError: the NotFound type, an API error with code "NotFound", or
\* a message containing "NotFound" or "StatusCode: 404".
isNotFoundError(err) ==
    err \in {"NotFoundType", "APINotFound", "MsgNotFound", "MsgStatusCode404"}

\* What HeadObject can answer for a key: for a stored object its ETag (or,
\* from a store that omits it, none) and for an absent one a not-found
\* error; any call can fail with another error.
HeadResponses(key) ==
    IF key \in DOMAIN bucket
    THEN {[err |-> "nil", etag |-> ETagOf(bucket[key])],
          [err |-> "nil", etag |-> <<>>],
          [err |-> "Other", etag |-> <<>>]}
    ELSE {[err |-> e, etag |-> <<>>] :
             e \in {"NotFoundType", "APINotFound", "MsgNotFound",
                    "MsgStatusCode404", "Other"}}

\* The overwriting variant: a hash mismatch leads to an upload.
HeadDecisionOverwrite(resp, localHash) ==
    IF resp.err = "nil"
    THEN IF extractETag(resp.etag) = <<>> THEN "fail"
         ELSE IF extractETag(resp.etag) = <<localHash>> THEN "skip"
         ELSE "upload"
    ELSE IF ~isNotFoundError(resp.err) THEN "fail"
    ELSE "upload"

\* The variant that never recognises an existing object as the same.
HeadDecisionNoDedup(resp, localHash) ==
    IF resp.err = "nil" THEN "fail"
    ELSE IF ~isNotFoundError(resp.err) THEN "fail"
    ELSE "upload"

\* backupDirectory after HeadObject: skip on a matching hash, fail on a
\* missing ETag, a different hash or an error that is not not-found, upload
\* on not-found.
HeadDecision(resp, localHash) ==
    IF resp.err = "nil"
    THEN IF extractETag(resp.etag) = <<>> THEN "fail"
         ELSE IF extractETag(resp.etag) = <<localHash>> THEN "skip"
         ELSE "fail"
    ELSE IF ~isNotFoundError(resp.err) THEN "fail"
    ELSE "upload"

\* strings.Fields: the maximal runs of non-space characters.
RECURSIVE Fields(_)
Fields(str) ==
    IF str = <<>> THEN <<>>
    ELSE IF Head(str) = " " THEN Fields(Tail(str))
    ELSE LET stops == {i \in 1..Len(str) : str[i] = " "}
             n == IF stops = {} THEN Len(str)
                  ELSE (CHOOSE i \in stops : \A j \in stops : i <= j) - 1
         IN <<SubSeq(str, 1, n)>> \o Fields(SubSeq(str, n + 1, Len(str)))

IsDigit(c) == \E i \in 1..10 : Digits[i] = c

DigitValue(c) == (CHOOSE i \in 1..10 : Digits[i] = c) - 1

\* The number written by the leading digits of a token (0 if there are none).
RECURSIVE ScanDigits(_, _)
ScanDigits(token, acc) ==
    IF token = <<>> \/ ~IsDigit(Head(token)) THEN acc
    ELSE ScanDigits(Tail(token), acc * 10 + DigitValue(Head(token)))

\* fmt.Sscanf(token, "%d", &v) into v = 0: %d takes an optional sign and then
\* the leading digits of the token, and ignores what follows them; v stays 0
\* when no digit follows the optional sign.
Sscanf(token) ==
    IF token # <<>> /\ Head(token) = "-" THEN 0 - ScanDigits(Tail(token), 0)
    ELSE IF token # <<>> /\ Head(token) = "+" THEN ScanDigits(Tail(token), 0)
    ELSE ScanDigits(token, 0)

EmptyFilter == [FromYear |-> 0, FromMonth |-> 0, ToYear |-> 0, ToMonth |-> 0]

\* matchesFilter with the boundary months left out of the range.
matchesFilterExclusive(key, filter) ==
    LET parts == Fields(key)
        year == Sscanf(parts[1])
        month == Sscanf(parts[2])
        fromMonth == IF filter.FromMonth = 0 THEN 1 ELSE filter.FromMonth
        toMonth == IF filter.ToMonth = 0 THEN 12 ELSE filter.ToMonth
    IN IF Len(parts) < 2 THEN FALSE
       ELSE IF year = 0 \/ month = 0 THEN FALSE
       ELSE IF /\ filter.FromYear > 0
               /\ (year < filter.FromYear \/ (year = filter.FromYear /\ month <= fromMonth))
            THEN FALSE
       ELSE IF /\ filter.ToYear > 0
               /\ (year > filter.ToYear \/ (year = filter.ToYear /\ month >= toMonth))
            THEN FALSE
       ELSE TRUE

\* matchesFilter
matchesFilter(key, filter) ==
    LET parts == Fields(key)
        year == Sscanf(parts[1])
        month == Sscanf(parts[2])
        fromMonth == IF filter.FromMonth = 0 THEN 1 ELSE filter.FromMonth
        toMonth == IF filter.ToMonth = 0 THEN 12 ELSE filter.ToMonth
    IN IF Len(parts) < 2 THEN FALSE
       ELSE IF year = 0 \/ month = 0 THEN FALSE
       ELSE IF /\ filter.FromYear > 0
               /\ (year < filter.FromYear \/ (year = filter.FromYear /\ month < fromMonth))
            THEN FALSE
       ELSE IF /\ filter.ToYear > 0
               /\ (year > filter.ToYear \/ (year = filter.ToYear /\ month > toMonth))
            THEN FALSE
       ELSE TRUE

(***************************************************************************)
(* matchesFilter on its own: a key and a filter are drawn, and the filter  *)
(* stage of RestoreDirectories applies matchesFilter to them.              *)
(***************************************************************************)
\* The months keys are written for, with the names time.Format gives them.
MonthName ==
    (1 :> <<"J", "a", "n", "u", "a", "r", "y">>) @@
    (5 :> <<"M", "a", "y">>) @@
    (6 :> <<"J", "u", "n", "e">>) @@
    (7 :> <<"J", "u", "l", "y">>) @@
    (12 :> <<"D", "e", "c", "e", "m", "b", "e", "r">>)

KeyYears == {2022, 2023, 2024}

KeyMonths == DOMAIN MonthName

\* The rest of a key after its first two tokens: month name, day, counts.
KeyRest(month) ==
    BuildKey(<<" ">> \o MonthName[month] \o <<" ", "1", "5">>, 1, 0)

\* The key backupDirectory builds for a directory the parser named
\* "YYYY MM Month 15" (time.Format "2006 01 January 02").
DatedKey(year, month) ==
    Itoa(year) \o <<" ">> \o PadLeft(Itoa(month), 2) \o KeyRest(month)

\* Keys without a (year, month): fewer than two tokens, or a first or a
\* second token that is not a number.
UndatedKeys ==
    { <<>>,
      <<"2", "0", "2", "3">>,
      <<"n", "o", "t", "e", "s", ".", "t", "a", "r", ".", "g", "z">>,
      <<"x", " ", "0", "6">> \o KeyRest(6),
      <<"2", "0", "2", "3">> \o KeyRest(6),
      <<"2", "0", "2", "3", "x", " ", "0", "6">> \o KeyRest(6),
      <<"2", "0", "2", "3", " ", "0", "6", "x">> \o KeyRest(6) }

\* RestoreFilter values: each bound absent (0) or set.
Filters ==
    [FromYear : {0, 2023}, FromMonth : {0, 6}, ToYear : {0, 2023, 2024}, ToMonth : {0, 6}]

InitFilter ==
    /\ fltPc = "start"
    /\ \/ \E year \in KeyYears, month \in KeyMonths :
            /\ fltKey = DatedKey(year, month)
            /\ fltDate = <<year, month>>
       \/ /\ fltKey \in UndatedKeys
          /\ fltDate = <<>>
    /\ fltFilter \in Filters
    /\ fltMatched = FALSE
    /\ KeyCoreIdle
    /\ ExtraIdle

\* RestoreDirectories: if b.matchesFilter(*obj.Key, filter) { ... }
FilterApply ==
    /\ fltPc = "start"
    /\ fltMatched' = matchesFilter(fltKey, fltFilter)
    /\ fltPc' = "matched"
    /\ UNCHANGED <<fltKey, fltDate, fltFilter>>
    /\ UNCHANGED <<keyCoreVars, extraVars>>
    /\ UNCHANGED <<parseVars, poolVars, storeVars, renVars>>

NextFilter == FilterApply

FilterStart == InitFilter /\ ParseIdle /\ PoolIdle /\ StoreIdle /\ RenIdle

SpecFilter == FilterStart /\ [][NextFilter]_vars

\* (year, month) pairs in lexicographic order.
LexLeq(a, b) == a[1] < b[1] \/ (a[1] = b[1] /\ a[2] <= b[2])

\* The inclusive range of a filter: no lower bound when FromYear is 0, no
\* upper bound when ToYear is 0; a zero FromMonth is January and a zero
\* ToMonth is December.
InRange(date, filter) ==
    LET from == <<filter.FromYear, IF filter.FromMonth = 0 THEN 1 ELSE filter.FromMonth>>
        to == <<filter.ToYear, IF filter.ToMonth = 0 THEN 12 ELSE filter.ToMonth>>
    IN /\ filter.FromYear = 0 \/ LexLeq(from, date)
       /\ filter.ToYear = 0 \/ LexLeq(date, to)

\* C16: matchesFilter accepts a key exactly when the (year, month) in its
\* first two tokens lies in the filter's inclusive [from, to] range in
\* lexicographic order, with absent years as no bound and absent months as
\* January / December.
C16_FilterIsInclusiveRange ==
    (fltPc = "matched" /\ fltDate # <<>>) =>
        (fltMatched <=> InRange(fltDate, fltFilter))

\* A key dated exactly at the lower bound month was accepted.
C16_Witness ==
    /\ fltPc = "matched"
    /\ fltDate = <<2023, 6>>
    /\ fltFilter.FromYear = 2023 /\ fltFilter.FromMonth = 6
    /\ fltFilter.ToYear = 2023 /\ fltFilter.ToMonth = 6
    /\ fltMatched

\* C17: a key with fewer than two tokens, or whose first or second token is
\* not a number, is rejected by matchesFilter under every filter.
C17_UndatedKeyExcluded ==
    (fltPc = "matched" /\ fltDate = <<>>) => ~fltMatched

\* The strings of a set in ascending byte order: the order in which
\* os.ReadDir returns names and ListObjectsV2 returns keys.
RECURSIVE SortedSeq(_)
SortedSeq(S) ==
    IF S = {} THEN <<>>
    ELSE LET m == CHOOSE x \in S : \A y \in S \ {x} : StrLess(x, y)
         IN <<m>> \o SortedSeq(S \ {m})

\* extractTarGz into targetDir: every directory entry is created if absent
\* (os.MkdirAll), every regular file is created or truncated (os.Create),
\* written, and given the mode of its header (os.Chmod).  What was in the
\* directory and is not in the archive stays.
extractTarGz(archive, tree) ==
    LET old == IF archive.base \in DOMAIN tree THEN tree[archive.base] ELSE EmptyFn
        new == [f \in DOMAIN old \cup DOMAIN archive.entries |->
                   IF f \in DOMAIN archive.entries THEN archive.entries[f] ELSE old[f]]
    IN [d \in DOMAIN tree \cup {archive.base} |->
           IF d = archive.base THEN new ELSE tree[d]]

\* The bookkeeping between two calls: the changes made to the source tree
\* and the failures of the store so far.
StoreIdleAt(edits, nfaults) == [kind |-> "none", edits |-> edits, nfaults |-> nfaults]

\* What an earlier backup of "2023 06 June 15 t", made when the directory
\* held the image and another video, has left in the bucket.
EarlierBuckets ==
    LET d == DatePrefix \o <<" ", "t">>
        c == (PJpg :> [data |-> 1, mode |-> ModeDefault]) @@
                 (VMov :> [data |-> MaxData, mode |-> ModeDefault])
        counts == countMediaFiles(c)
    IN {EmptyFn, BuildKey(d, counts.images, counts.videos) :> createTarGz(d, c)}

\* The state before the first call: a source tree, a bucket that is empty or
\* holds one earlier backup, and a target directory that is empty or holds
\* one directory from earlier.
InitStore ==
    /\ source \in SourceTrees
    /\ bucket \in EarlierBuckets
    /\ target \in TargetTrees
    /\ bucket = EmptyFn \/ target = EmptyFn
    /\ runLog = <<>>
    /\ cur = StoreIdleAt(0, 0)

\* The pool's variables between two calls.
PoolReset ==
    /\ poolMode' = "idle"
    /\ poolJobs' = <<>>
    /\ maxConcurrent' = 0
    /\ sendIdx' = 0
    /\ jobsChan' = <<>>
    /\ jobsChanClosed' = FALSE
    /\ results' = <<>>
    /\ wpc' = <<>>
    /\ wjob' = <<>>
    /\ wloc' = <<>>
    /\ handed' = <<>>
    /\ poolPc' = "idle"
    /\ poolRet' = "none"

\* The record of a finished call.
CallRecord(kind, ret, log, uploads, faults, bucketBefore, targetBefore) ==
    [kind |-> kind, ret |-> ret, log |-> log, uploads |-> uploads,
     faults |-> faults, source |-> source, bucketBefore |-> bucketBefore,
     targetBefore |-> targetBefore, bucketAfter |-> bucket, targetAfter |-> target]

\* Between two calls the user changes the content of a directory of the
\* source tree.
EditSource ==
    /\ poolMode = "idle"
    /\ cur.edits < MaxEdits
    /\ Len(runLog) \in 1..(MaxRuns - 1)
    /\ \E d \in DOMAIN source, c \in Contents :
         /\ source[d] # c
         /\ source' = [source EXCEPT ![d] = c]
    /\ cur' = StoreIdleAt(cur.edits + 1, cur.nfaults)
    /\ UNCHANGED <<poolVars, bucket, target, runLog>>
    /\ UNCHANGED <<parseVars, keyVars, renVars>>

\* BackupDirectories up to the start of the pool: the immediate
\* subdirectories of sourceDir are the jobs; with none it returns nil.
BackupDirectoriesStart ==
    /\ poolMode = "idle"
    /\ Len(runLog) < MaxRuns
    /\ \E mc \in 1..MaxWorkers :
         LET directories == SortedSeq(DOMAIN source) IN
         IF Len(directories) = 0
         THEN /\ runLog' = Append(runLog,
                     CallRecord("backup", "nil", EmptyFn, {}, FALSE, bucket, target))
              /\ UNCHANGED <<poolVars, cur>>
         ELSE /\ poolMode' = "backup"
              /\ StartWorkers(directories, mc)
              /\ cur' = [kind |-> "backup", edits |-> cur.edits,
                         nfaults |-> cur.nfaults, log |-> EmptyFn,
                         uploads |-> {}, faults |-> FALSE,
                         bucketBefore |-> bucket, targetBefore |-> target]
              /\ UNCHANGED runLog
    /\ UNCHANGED <<source, bucket, target>>
    /\ UNCHANGED <<parseVars, keyVars, renVars>>

\* The end of a job of the call in progress: its record is kept and its
\* result is sent.  fault tells that the job met a failure of the store.
FinishJob(w, rec, fault) ==
    /\ fault => cur.nfaults < MaxFaults
    /\ SendResult(w, rec.ok)
    /\ cur' = [cur EXCEPT !.log = (wjob[w] :> rec) @@ @,
                          !.faults = @ \/ fault,
                          !.nfaults = IF fault THEN @ + 1 ELSE @,
                          !.uploads = IF rec.uploaded THEN @ \cup {rec.key} ELSE @]

\* backupDirectory up to the answer of HeadObject: count the media files,
\* build the key, write the archive into a temporary directory, hash it,
\* ask the store for the key and decide.
BackupHead(w) ==
    /\ poolMode = "backup"
    /\ wpc[w] = "head"
    /\ LET dirName == poolJobs[wjob[w]]
           counts == countMediaFiles(source[dirName])
           s3Key == BuildKey(dirName, counts.images, counts.videos)
           archive == createTarGz(dirName, source[dirName])
           localHash == calculateMD5(archive)
       IN \E resp \in HeadResponses(s3Key) :
            LET decision == HeadDecision(resp, localHash)
                rec == [key |-> s3Key,
                        existed |-> s3Key \in DOMAIN bucket,
                        same |-> s3Key \in DOMAIN bucket /\ bucket[s3Key] = archive,
                        head |-> IF resp.err = "nil" THEN "found"
                                 ELSE IF isNotFoundError(resp.err) THEN "notFound"
                                 ELSE "error",
                        etagMissing |-> resp.err = "nil" /\ resp.etag = <<>>,
                        uploaded |-> FALSE,
                        ok |-> decision = "skip"]
            IN IF decision = "upload"
               THEN /\ wpc' = [wpc EXCEPT ![w] = "put"]
                    /\ wloc' = [wloc EXCEPT ![w] =
                           [key |-> s3Key, archive |-> archive, rec |-> rec]]
                    /\ UNCHANGED <<results, cur>>
               ELSE FinishJob(w, rec, resp.err = "Other" \/ rec.etagMissing)
    /\ UNCHANGED <<poolMode, poolJobs, maxConcurrent, sendIdx, jobsChan, jobsChanClosed,
                   wjob, handed, poolPc, poolRet, source, bucket, target, runLog>>
    /\ UNCHANGED <<parseVars, keyVars, renVars>>

\* backupDirectory: uploadToS3 (PutObject stores the archive under the key,
\* replacing what was there) or its failure.
BackupPut(w) ==
    /\ poolMode = "backup"
    /\ wpc[w] = "put"
    /\ \/ /\ bucket' = [k \in DOMAIN bucket \cup {wloc[w].key} |->
                           IF k = wloc[w].key THEN wloc[w].archive ELSE bucket[k]]
          /\ FinishJob(w, [wloc[w].rec EXCEPT !.uploaded = TRUE, !.ok = TRUE], FALSE)
       \/ /\ UNCHANGED bucket
          /\ FinishJob(w, wloc[w].rec, TRUE)
    /\ UNCHANGED <<poolMode, poolJobs, maxConcurrent, sendIdx, jobsChan, jobsChanClosed,
                   wjob, handed, poolPc, poolRet, source, target, runLog>>
    /\ UNCHANGED <<parseVars, keyVars, renVars>>

\* BackupDirectories / RestoreDirectories after runWorkerPool: wg.Wait() has
\* returned, the results are counted and the call returns.
CallReturn ==
    /\ poolMode \in {"backup", "restore"}
    /\ poolPc = "wait"
    /\ \A w \in PoolWorkers : wpc[w] = "done"
    /\ runLog' = Append(runLog,
           CallRecord(cur.kind, PoolResult(results), cur.log,
                      cur.uploads, cur.faults, cur.bucketBefore, cur.targetBefore))
    /\ cur' = StoreIdleAt(cur.edits, cur.nfaults)
    /\ PoolReset
    /\ UNCHANGED <<source, bucket, target>>
    /\ UNCHANGED <<parseVars, keyVars, renVars>>

\* RestoreDirectories up to the start of the pool: list the bucket, keep
\* the keys that match the filter; return the list error, or nil when no
\* key is left.
RestoreDirectoriesStart ==
    /\ poolMode = "idle"
    /\ Len(runLog) < MaxRuns
    /\ \E mc \in 1..MaxWorkers, listFails \in BOOLEAN :
         LET allObjects == SortedSeq(DOMAIN bucket)
             objectsToRestore ==
                 SelectSeq(allObjects, LAMBDA key : matchesFilter(key, EmptyFilter))
         IN IF listFails
            THEN /\ cur.nfaults < MaxFaults
                 /\ runLog' = Append(runLog,
                        CallRecord("restore", "error", EmptyFn, {}, TRUE, bucket, target))
                 /\ cur' = StoreIdleAt(cur.edits, cur.nfaults + 1)
                 /\ UNCHANGED poolVars
            ELSE IF Len(objectsToRestore) = 0
            THEN /\ runLog' = Append(runLog,
                        CallRecord("restore", "nil", EmptyFn, {}, FALSE, bucket, target))
                 /\ UNCHANGED <<poolVars, cur>>
            ELSE /\ poolMode' = "restore"
                 /\ StartWorkers(objectsToRestore, mc)
                 /\ cur' = [kind |-> "restore", edits |-> cur.edits,
                            nfaults |-> cur.nfaults, log |-> EmptyFn,
                            uploads |-> {}, faults |-> FALSE,
                            bucketBefore |-> bucket, targetBefore |-> target]
                 /\ UNCHANGED runLog
    /\ UNCHANGED <<source, bucket, target>>
    /\ UNCHANGED <<parseVars, keyVars, renVars>>

\* The record of a restore job.
RestoreRecord(key, dirName, extracted, into, ok) ==
    [key |-> key, name |-> dirName, extracted |-> extracted, into |-> into,
     uploaded |-> FALSE, ok |-> ok]

\* restoreObject: derive the directory name from the key and fail if
\* os.Stat finds it under the target directory.
RestoreStat(w) ==
    /\ poolMode = "restore"
    /\ wpc[w] = "stat"
    /\ LET key == poolJobs[wjob[w]]
           dirName == extractDirNameFromKey(key)
       IN IF dirName \in DOMAIN target
          THEN FinishJob(w, RestoreRecord(key, dirName, FALSE, <<>>, FALSE), FALSE)
          ELSE /\ wpc' = [wpc EXCEPT ![w] = "get"]
               /\ wloc' = [wloc EXCEPT ![w] = [key |-> key, dirName |-> dirName]]
               /\ UNCHANGED <<results, cur>>
    /\ UNCHANGED <<poolMode, poolJobs, maxConcurrent, sendIdx, jobsChan, jobsChanClosed,
                   wjob, handed, poolPc, poolRet, source, bucket, target, runLog>>
    /\ UNCHANGED <<parseVars, keyVars, renVars>>

\* restoreObject after the check: GetObject into a temporary directory and
\* extractTarGz of the downloaded archive into the target directory, or the
\* failure of GetObject.
RestoreExtract(w) ==
    /\ poolMode = "restore"
    /\ wpc[w] = "get"
    /\ \/ /\ wloc[w].key \in DOMAIN bucket
          /\ target' = extractTarGz(bucket[wloc[w].key], target)
          /\ FinishJob(w, RestoreRecord(wloc[w].key, wloc[w].dirName, TRUE,
                                        bucket[wloc[w].key].base, TRUE), FALSE)
       \/ /\ UNCHANGED target
          /\ FinishJob(w, RestoreRecord(wloc[w].key, wloc[w].dirName, FALSE, <<>>, FALSE),
                       TRUE)
    /\ UNCHANGED <<poolMode, poolJobs, maxConcurrent, sendIdx, jobsChan, jobsChanClosed,
                   wjob, handed, poolPc, poolRet, source, bucket, runLog>>
    /\ UNCHANGED <<parseVars, keyVars, renVars>>

NextStore ==
    \/ EditSource
    \/ BackupDirectoriesStart
    \/ RestoreDirectoriesStart
    \/ PoolSend
    \/ PoolClose
    \/ \E w \in PoolWorkers : PoolTake(w)
    \/ \E w \in PoolWorkers : PoolWorkerExit(w)
    \/ \E w \in PoolWorkers : BackupHead(w)
    \/ \E w \in PoolWorkers : BackupPut(w)
    \/ \E w \in PoolWorkers : RestoreStat(w)
    \/ \E w \in PoolWorkers : RestoreExtract(w)
    \/ CallReturn

StoreStart == InitStore /\ PoolIdle /\ ParseIdle /\ KeyIdle /\ RenIdle

SpecStore == StoreStart /\ [][NextStore]_vars

\* The records of the backup jobs finished so far, in the calls that have
\* returned and in the call in progress.
BackupJobRecords ==
    UNION {{runLog[i].log[j] : j \in DOMAIN runLog[i].log} :
              i \in {k \in 1..Len(runLog) : runLog[k].kind = "backup"}}
    \cup (IF poolMode = "backup" THEN {cur.log[j] : j \in DOMAIN cur.log} ELSE {})

\* C3: a backup job uploads under a key only when HeadObject reported the key
\* as not found (and the key was indeed absent); when the key exists with
\* the hash of the local archive the job succeeds without upload; when it
\* exists with a different hash, or HeadObject fails with an error other
\* than not-found, the job fails without upload; and no step of any
\* sequence of backup runs removes a key of the bucket or changes what is
\* stored under it.
C3_UploadOnlyWhenNotFound ==
    /\ [](\A rec \in BackupJobRecords :
            /\ rec.uploaded => (rec.head = "notFound" /\ ~rec.existed)
            /\ (rec.head = "found" /\ ~rec.etagMissing /\ rec.same) =>
                   (rec.ok /\ ~rec.uploaded)
            /\ (rec.head = "found" /\ ~rec.same) => (~rec.ok /\ ~rec.uploaded)
            /\ rec.head = "error" => (~rec.ok /\ ~rec.uploaded))
    /\ [][\A k \in DOMAIN bucket : k \in DOMAIN bucket' /\ bucket'[k] = bucket[k]]_vars

\* C3 witness: a backup run has returned in which one job found its key in
\* the bucket with other content and failed, the stored content being the
\* same after the run as before.
C3_Witness ==
    \E i \in 1..Len(runLog) :
        /\ runLog[i].kind = "backup"
        /\ runLog[i].ret = "error"
        /\ \E j \in DOMAIN runLog[i].log :
             LET rec == runLog[i].log[j] IN
             /\ rec.existed /\ ~rec.same /\ rec.head = "found" /\ ~rec.etagMissing
             /\ ~rec.ok /\ ~rec.uploaded
             /\ runLog[i].bucketAfter[rec.key] = runLog[i].bucketBefore[rec.key]

\* C4: while a restore call runs, every directory that was under the target
\* directory when the call started holds exactly the files, contents and
\* modes it held then.
C4_RestoreAdditiveOnly ==
    poolMode = "restore" =>
        \A d \in DOMAIN cur.targetBefore :
            d \in DOMAIN target /\ target[d] = cur.targetBefore[d]

\* C5: in one restore call, of two jobs whose keys map to the same
\* directory name and whose archives are rooted at that name, at most one
\* extracts.
C5_AtMostOneExtracts ==
    poolMode = "restore" =>
        \A j1 \in DOMAIN cur.log, j2 \in DOMAIN cur.log :
            (/\ j1 # j2
             /\ cur.log[j1].name = cur.log[j2].name
             /\ cur.log[j1].into = cur.log[j1].name
             /\ cur.log[j2].into = cur.log[j2].name)
            => ~(cur.log[j1].extracted /\ cur.log[j2].extracted)

\* C6: when a backup of the source tree into an empty bucket, met by no
\* failure of the store, is followed by a restore with the empty filter into
\* an empty target directory, met by no failure either, every regular file
\* of every immediate subdirectory of the source is in the target under the
\* same directory name and relative path with the same content and mode.
C6_RoundTrip ==
    \A i \in 1..(Len(runLog) - 1) :
        LET b == runLog[i]
            r == runLog[i + 1]
        IN (/\ b.kind = "backup" /\ b.bucketBefore = EmptyFn /\ ~b.faults
            /\ r.kind = "restore" /\ r.targetBefore = EmptyFn /\ ~r.faults
            /\ r.source = b.source)
           => \A d \in DOMAIN b.source :
                /\ d \in DOMAIN r.targetAfter
                /\ \A f \in DOMAIN b.source[d] :
                     /\ f \in DOMAIN r.targetAfter[d]
                     /\ r.targetAfter[d][f] = b.source[d][f]

\* C7: when a backup run that returned nil is followed by a backup run over
\* the same unchanged source, met by no failure of the store, the second
\* run uploads nothing, returns nil and leaves the bucket as it was; and a
\* backup run into an empty bucket that returned nil leaves exactly one
\* object per immediate subdirectory.
C7_BackupIdempotent ==
    /\ \A i \in 1..(Len(runLog) - 1) :
         LET a == runLog[i]
             b == runLog[i + 1]
         IN (/\ a.kind = "backup" /\ b.kind = "backup"
             /\ a.ret = "nil" /\ a.source = b.source /\ ~b.faults)
            => /\ b.uploads = {}
               /\ b.ret = "nil"
               /\ b.bucketAfter = a.bucketAfter
               /\ \A j \in DOMAIN b.log : b.log[j].same
    /\ \A i \in 1..Len(runLog) :
         (/\ runLog[i].kind = "backup" /\ runLog[i].ret = "nil"
          /\ runLog[i].bucketBefore = EmptyFn)
         => Cardinality(DOMAIN runLog[i].bucketAfter)
              = Cardinality(DOMAIN runLog[i].source)

\* C7 witness: a backup run of two directories into an empty bucket
\* uploaded both and returned nil, and a second run over the same source
\* uploaded nothing and returned nil.
C7_Witness ==
    /\ Len(runLog) = 2
    /\ runLog[1].kind = "backup" /\ runLog[2].kind = "backup"
    /\ runLog[1].bucketBefore = EmptyFn
    /\ Cardinality(DOMAIN runLog[1].source) = 2
    /\ Cardinality(runLog[1].uploads) = 2
    /\ runLog[1].ret = "nil"
    /\ runLog[2].source = runLog[1].source
    /\ ~runLog[2].faults
    /\ runLog[2].uploads = {}
    /\ runLog[2].ret = "nil"
    /\ Cardinality(DOMAIN bucket) = 2

(***************************************************************************)
(* The directory renamer (directory_renamer.go) and the date-ordered file  *)
(* renamer it calls.                                                       *)
(*                                                                         *)
(* A file is [id, date]: id tells the contents apart (it is the name the   *)
(* file had at first), date is what the date extractor resolves for it, 0  *)
(* when it resolves nothing.  The files of one directory are compared by   *)
(* name: their paths share the directory's prefix.                         *)
(***************************************************************************)
ZeroTime == 0

RenDirName == DatePrefix \o <<" ", "t">>

\* strconv.Atoi of a token of the model's alphabet: an error unless the
\* token is a non-empty run of digits after an optional sign.
Atoi(token) ==
    LET digits == IF token # <<>> /\ Head(token) \in {"+", "-"} THEN Tail(token) ELSE token
    IN IF digits # <<>> /\ \A i \in 1..Len(digits) : IsDigit(digits[i])
       THEN [err |-> FALSE, val |-> Sscanf(token)]
       ELSE [err |-> TRUE, val |-> 0]

\* strings.ReplaceAll(str, " ", "_")
ReplaceSpaces(str) == [i \in 1..Len(str) |-> IF str[i] = " " THEN "_" ELSE str[i]]

\* The new directory name with newName appended even when it is empty.
NewDirNameAlwaysAppends(baseName, newName) ==
    LET parts == Fields(baseName)
    IN parts[1] \o <<" ">> \o parts[2] \o <<" ">> \o parts[3] \o <<" ">> \o parts[4]
           \o <<" ">> \o newName

\* RenameDirectory: the new directory name, the first four tokens of the
\* current one followed by newName if it is not empty.
NewDirName(baseName, newName) ==
    LET parts == Fields(baseName)
        joined == parts[1] \o <<" ">> \o parts[2] \o <<" ">> \o parts[3]
                      \o <<" ">> \o parts[4]
    IN IF newName # <<>> THEN joined \o <<" ">> \o newName ELSE joined

\* RenameDirectory: the checks of the directory's name.
ValidDirName(baseName) ==
    LET parts == Fields(baseName) IN
    /\ Len(parts) >= 4
    /\ ~Atoi(parts[1]).err /\ Atoi(parts[1]).val >= 1000 /\ Atoi(parts[1]).val <= 9999
    /\ ~Atoi(parts[2]).err /\ Atoi(parts[2]).val >= 1 /\ Atoi(parts[2]).val <= 12

\* fmt.Sprintf("%s_%05d%s", baseName, i, strings.ToLower(filepath.Ext(path)))
NewFileName(baseName, i, path) ==
    baseName \o <<"_">> \o Itoa05(i) \o ToLower(Ext(path))

\* The comparison handed to sort.Slice: by date, equal dates by path.
FileBefore(a, b) ==
    IF a.date = b.date THEN StrLess(a.path, b.path) ELSE a.date < b.date

\* sort.Slice with FileBefore, a strict total order on files of distinct
\* paths: the one ascending sequence of the collected files.
RECURSIVE SortFiles(_)
SortFiles(S) ==
    IF S = {} THEN <<>>
    ELSE LET m == CHOOSE x \in S : \A y \in S \ {x} : FileBefore(x, y)
         IN <<m>> \o SortFiles(S \ {m})

\* GetFileDate, and the zero time the renamer uses when it fails.
FileDate(file) == IF file.date = 0 THEN ZeroTime ELSE file.date

\* The names of the files of a directory that pass IsImage / IsVideo.
Images(dir) == {n \in DOMAIN dir : IsImage(n)}

Videos(dir) == {n \in DOMAIN dir : IsVideo(n)}

\* renameFilesWithPatternInDir up to its loop: the files of the directory
\* that pass the filter (retained), with their dates, sorted.
CollectSorted(dir, retained) ==
    SortFiles({[path |-> n, date |-> FileDate(dir[n])] : n \in retained})

\* os.Rename inside one directory: the file takes the new name, replacing
\* a file that has it.
Rename(dir, old, new) ==
    IF old = new THEN dir
    ELSE [n \in (DOMAIN dir \ {old}) \cup {new} |-> IF n = new THEN dir[old] ELSE dir[n]]

\* The names the model's files can have at first, in the date directory and
\* in its videos subdirectory: free names, names of the target pattern, and
\* a file that is neither image nor video.
RootNames ==
    { <<"a", ".", "j", "p", "g">>, <<"b", ".", "J", "P", "G">>,
      NewFileName(ReplaceSpaces(RenDirName), 1, <<".", "j", "p", "g">>),
      NewFileName(ReplaceSpaces(RenDirName), 2, <<".", "j", "p", "g">>),
      <<"n", ".", "t", "x", "t">> }

VideoNames ==
    { <<"v", ".", "m", "o", "v">>,
      NewFileName(ReplaceSpaces(RenDirName), 1, <<".", "m", "o", "v">>) }

\* The directories over a set of names: every subset of at most n names,
\* every file with a date of 0..MaxDate and its name as id.
DirsOver(names, n) ==
    UNION {{[x \in N |-> [id |-> x, date |-> dates[x]]] : dates \in [N -> 0..MaxDate]} :
              N \in {M \in SUBSET names : Cardinality(M) <= n}}

\* Directory names RenameDirectory refuses, each with the check it fails:
\* fewer than four tokens, a year that is not a number in 1000..9999, a
\* month that is not a number in 1..12.
BadDirNames ==
    { [name |-> <<"2", "0", "2", "3", " ", "0", "6", " ", "J", "u", "n", "e">>,
       defect |-> "tokens"],
      [name |-> <<"2", "0", "2", "3", "x">> \o SubSeq(RenDirName, 5, Len(RenDirName)),
       defect |-> "year"],
      [name |-> <<"0", "9", "9", "9">> \o SubSeq(RenDirName, 5, Len(RenDirName)),
       defect |-> "year"],
      [name |-> <<"2", "0", "2", "3", " ", "1", "3">> \o SubSeq(RenDirName, 8, Len(RenDirName)),
       defect |-> "month"],
      [name |-> <<"2", "0", "2", "3", " ", "0", "0">> \o SubSeq(RenDirName, 8, Len(RenDirName)),
       defect |-> "month"],
      [name |-> <<"2", "0", "2", "3", " ", "6", "x">> \o SubSeq(RenDirName, 8, Len(RenDirName)),
       defect |-> "month"] }

\* The newName arguments: the current suffix, another one, none, and one
\* with a space.
NewNames == {<<"t">>, <<"u">>, <<>>, <<"u", " ", "v">>}

\* The directory RenameDirectory is called on is a date directory with up
\* to MaxRenFiles files, alone in its parent or next to a directory that has
\* one of the names it can be given; or a directory with a name that fails a
\* check; or a path that names no directory.
InitRen ==
    /\ renPc = "start"
    /\ renNewName \in NewNames
    /\ \/ /\ directory = RenDirName
          /\ parentDirs \in {{RenDirName}, {RenDirName, DatePrefix \o <<" ", "u">>},
                             {RenDirName, DatePrefix}}
          /\ dirRoot \in DirsOver(RootNames, MaxRenFiles)
          /\ dirVideos \in DirsOver(VideoNames, MaxRenFiles - 1)
          /\ renInitial = [root |-> dirRoot, videos |-> dirVideos, dir |-> directory,
                           parent |-> parentDirs, defect |-> "none"]
       \/ \E bad \in BadDirNames :
          /\ directory = bad.name
          /\ parentDirs = {bad.name}
          /\ dirRoot \in DirsOver(RootNames, 1)
          /\ dirVideos \in DirsOver(VideoNames, 1)
          /\ renInitial = [root |-> dirRoot, videos |-> dirVideos, dir |-> directory,
                           parent |-> parentDirs, defect |-> bad.defect]
       \/ /\ directory = RenDirName
          /\ parentDirs \in {{}, {DatePrefix}}
          /\ dirRoot = EmptyFn
          /\ dirVideos = EmptyFn
          /\ renInitial = [root |-> dirRoot, videos |-> dirVideos, dir |-> directory,
                           parent |-> parentDirs, defect |-> "path"]
    /\ renQueue = <<>>
    /\ renIdx = 0

\* RenameDirectory without the check that no directory has the new name.
RenameDirectoryStartUnchecked ==
    /\ renPc = "start"
    /\ IF directory \notin parentDirs
       THEN renPc' = "rejected" /\ UNCHANGED renQueue
       ELSE IF ~ValidDirName(directory)
       THEN renPc' = "rejected" /\ UNCHANGED renQueue
       ELSE /\ renPc' = "images"
            /\ renQueue' = CollectSorted(dirRoot, Images(dirRoot))
    /\ renIdx' = 0
    /\ UNCHANGED <<directory, parentDirs, renNewName, dirRoot, dirVideos, renInitial>>
    /\ UNCHANGED <<parseVars, poolVars, storeVars, keyVars>>

\* RenameDirectory up to the first rename: os.Stat the path, check the
\* name, build the new name, return an error if another directory has it,
\* and list and sort the images.
RenameDirectoryStart ==
    /\ renPc = "start"
    /\ IF directory \notin parentDirs
       THEN renPc' = "rejected" /\ UNCHANGED renQueue
       ELSE IF ~ValidDirName(directory)
       THEN renPc' = "rejected" /\ UNCHANGED renQueue
       ELSE IF /\ NewDirName(directory, renNewName) # directory
               /\ NewDirName(directory, renNewName) \in parentDirs
       THEN renPc' = "rejected" /\ UNCHANGED renQueue
       ELSE /\ renPc' = "images"
            /\ renQueue' = CollectSorted(dirRoot, Images(dirRoot))
    /\ renIdx' = 0
    /\ UNCHANGED <<directory, parentDirs, renNewName, dirRoot, dirVideos, renInitial>>
    /\ UNCHANGED <<parseVars, poolVars, storeVars, keyVars>>

\* renameFilesWithPatternInDir on the images: one turn of the rename loop;
\* os.Rename renames the file, or fails and RenameDirectory returns the error.
RenameImage ==
    /\ renPc = "images"
    /\ renIdx < Len(renQueue)
    /\ \E ok \in BOOLEAN :
        IF ok
        THEN /\ dirRoot' = Rename(dirRoot, renQueue[renIdx + 1].path,
                                  NewFileName(ReplaceSpaces(NewDirName(directory, renNewName)),
                                              renIdx + 1, renQueue[renIdx + 1].path))
             /\ renIdx' = renIdx + 1
             /\ UNCHANGED renPc
        ELSE /\ renPc' = "failed"
             /\ UNCHANGED <<dirRoot, renIdx>>
    /\ UNCHANGED <<directory, parentDirs, renNewName, dirVideos, renQueue, renInitial>>
    /\ UNCHANGED <<parseVars, poolVars, storeVars, keyVars>>

\* renameVideos entered after the directory has been moved.
RenameVideosStartMovingDir ==
    /\ renPc = "images"
    /\ renIdx = Len(renQueue)
    /\ renPc' = "videos"
    /\ renQueue' = CollectSorted(dirVideos, Videos(dirVideos))
    /\ renIdx' = 0
    /\ directory' = NewDirName(directory, renNewName)
    /\ parentDirs' = (parentDirs \ {directory}) \cup {NewDirName(directory, renNewName)}
    /\ UNCHANGED <<renNewName, dirRoot, dirVideos, renInitial>>
    /\ UNCHANGED <<parseVars, poolVars, storeVars, keyVars>>

\* renameImages has returned; renameVideos lists and sorts the videos of the
\* videos subdirectory (an absent subdirectory is an empty one here).
RenameVideosStart ==
    /\ renPc = "images"
    /\ renIdx = Len(renQueue)
    /\ renPc' = "videos"
    /\ renQueue' = CollectSorted(dirVideos, Videos(dirVideos))
    /\ renIdx' = 0
    /\ UNCHANGED <<directory, parentDirs, renNewName, dirRoot, dirVideos, renInitial>>
    /\ UNCHANGED <<parseVars, poolVars, storeVars, keyVars>>

\* renameFilesWithPatternInDir on the videos: one turn of the rename loop;
\* os.Rename renames the file, or fails and RenameDirectory returns the error.
RenameVideo ==
    /\ renPc = "videos"
    /\ renIdx < Len(renQueue)
    /\ \E ok \in BOOLEAN :
        IF ok
        THEN /\ dirVideos' = Rename(dirVideos, renQueue[renIdx + 1].path,
                                    NewFileName(ReplaceSpaces(NewDirName(directory, renNewName)),
                                                renIdx + 1, renQueue[renIdx + 1].path))
             /\ renIdx' = renIdx + 1
             /\ UNCHANGED renPc
        ELSE /\ renPc' = "failed"
             /\ UNCHANGED <<dirVideos, renIdx>>
    /\ UNCHANGED <<directory, parentDirs, renNewName, dirRoot, renQueue, renInitial>>
    /\ UNCHANGED <<parseVars, poolVars, storeVars, keyVars>>

\* renameDir: nothing to do when the path stays the same; else os.Rename
\* moves the directory, or fails and RenameDirectory returns the error.
RenameDir ==
    /\ renPc = "videos"
    /\ renIdx = Len(renQueue)
    /\ LET newDirName == NewDirName(directory, renNewName) IN
       \E ok \in BOOLEAN :
        IF ok \/ newDirName = directory
        THEN /\ directory' = newDirName
             /\ parentDirs' = (parentDirs \ {directory}) \cup {newDirName}
             /\ renPc' = "done"
        ELSE /\ renPc' = "failed"
             /\ UNCHANGED <<directory, parentDirs>>
    /\ UNCHANGED <<renNewName, dirRoot, dirVideos, renQueue, renIdx, renInitial>>
    /\ UNCHANGED <<parseVars, poolVars, storeVars, keyVars>>

NextRen ==
    \/ RenameDirectoryStart
    \/ RenameImage
    \/ RenameVideosStart
    \/ RenameVideo
    \/ RenameDir

RenStart == InitRen /\ ParseIdle /\ PoolIdle /\ StoreIdle /\ KeyIdle

SpecRen == RenStart /\ [][NextRen]_vars

\* The contents held by the files of a directory.  (Files have distinct
\* contents at first, so sets stand for multisets.)
IdsOf(dir) == {dir[n].id : n \in DOMAIN dir}

\* C9: when RenameDirectory called with the directory's current suffix has
\* returned, the directory has the name it had, and the date directory and
\* its videos subdirectory each hold as many files as before, with the same
\* contents.
C9_NoOpRenameLosesNoFile ==
    (renPc = "done" /\ renNewName = <<"t">>) =>
        /\ directory = RenDirName
        /\ Cardinality(DOMAIN dirRoot) = Cardinality(DOMAIN renInitial.root)
        /\ IdsOf(dirRoot) = IdsOf(renInitial.root)
        /\ Cardinality(DOMAIN dirVideos) = Cardinality(DOMAIN renInitial.videos)
        /\ IdsOf(dirVideos) = IdsOf(renInitial.videos)

\* C10: when RenameDirectory has returned, the i-th image of the date
\* directory in ascending (date, path) order, a file without resolvable
\* date counting as the zero time, is the file named
\* {baseName}_{i as 5 digits}{lowercased extension}; likewise the videos.
C10_IndexFollowsDateOrder ==
    renPc = "done" =>
        LET baseName == ReplaceSpaces(directory)
            images == CollectSorted(renInitial.root, Images(renInitial.root))
            videos == CollectSorted(renInitial.videos, Videos(renInitial.videos))
        IN /\ \A i \in 1..Len(images) :
                LET n == NewFileName(baseName, i, images[i].path) IN
                n \in DOMAIN dirRoot /\ dirRoot[n].id = renInitial.root[images[i].path].id
           /\ \A i \in 1..Len(videos) :
                LET n == NewFileName(baseName, i, videos[i].path) IN
                n \in DOMAIN dirVideos
                    /\ dirVideos[n].id = renInitial.videos[videos[i].path].id

\* The name RenameDirectory is to give a date directory of the model: its
\* four date tokens, then a space and newName unless newName is empty.
TargetName(newName) ==
    IF newName = <<>> THEN DatePrefix ELSE DatePrefix \o <<" ">> \o newName

\* The call is one RenameDirectory has to refuse: the path names no
\* directory, the name fails a check, or another directory has the new name.
Refused ==
    \/ renInitial.defect # "none"
    \/ /\ TargetName(renNewName) # renInitial.dir
       /\ TargetName(renNewName) \in renInitial.parent

\* C18: a call of RenameDirectory on a path that names no directory, on a
\* name with fewer than four tokens, a bad year or a bad month, or whose
\* new name another directory has, never renames a file or the directory,
\* and returns an error.
C18_RefusedCallChangesNothing ==
    Refused =>
        /\ renPc \in {"start", "rejected"}
        /\ directory = renInitial.dir
        /\ parentDirs = renInitial.parent
        /\ dirRoot = renInitial.root
        /\ dirVideos = renInitial.videos

\* A call whose new name another directory has was refused, with images in
\* the directory.
C18_Witness ==
    /\ renPc = "rejected"
    /\ renInitial.defect = "none"
    /\ TargetName(renNewName) \in renInitial.parent
    /\ Images(dirRoot) # {}

\* C19: when RenameDirectory(path, newSuffix) has returned without error,
\* the directory is named by its first four tokens followed by a space and
\* newSuffix, or by the four tokens alone when newSuffix is empty, and every
\* image in it and every video in its videos subdirectory is named
\* {new directory name with spaces as underscores}_{5 digits}{extension}.
C19_RenamedToDatePlusSuffix ==
    renPc = "done" =>
        LET baseName == ReplaceSpaces(TargetName(renNewName)) IN
        /\ directory = TargetName(renNewName)
        /\ TargetName(renNewName) \in parentDirs
        /\ renInitial.dir # TargetName(renNewName) => renInitial.dir \notin parentDirs
        /\ \A n \in Images(dirRoot) :
              \E i \in 1..MaxRenFiles : n = NewFileName(baseName, i, n)
        /\ \A n \in Videos(dirVideos) :
              \E i \in 1..MaxRenFiles : n = NewFileName(baseName, i, n)

\* A directory with an image and a video has had its suffix removed.
C19_Witness ==
    /\ renPc = "done"
    /\ renNewName = <<>>
    /\ directory = DatePrefix
    /\ Images(dirRoot) # {}
    /\ Videos(dirVideos) # {}

\* C20: the directory is moved by the last step of RenameDirectory only:
\* files are renamed while the directory has its old name, the images while
\* renameImages runs and the videos after it, and once a file rename has
\* failed the directory keeps its old name.
C20_DirectoryMovedLast ==
    [][ /\ directory' # directory =>
            /\ renPc = "videos" /\ renIdx = Len(renQueue) /\ renPc' = "done"
            /\ dirRoot' = dirRoot /\ dirVideos' = dirVideos
        /\ dirRoot' # dirRoot =>
            /\ renPc = "images" /\ directory = renInitial.dir
            /\ dirVideos = renInitial.videos
        /\ dirVideos' # dirVideos =>
            /\ renPc = "videos" /\ directory = renInitial.dir
        /\ renPc = "failed" =>
            /\ directory = renInitial.dir /\ directory' = directory
            /\ parentDirs' = renInitial.parent
      ]_vars

\* The directory was moved after an image and a video had been renamed.
C20_Witness ==
    /\ renPc = "done"
    /\ directory # renInitial.dir
    /\ dirRoot # renInitial.root
    /\ dirVideos # renInitial.videos

\* The objects of the bucket that are backups of a directory: those with a
\* key built from its name and some counts.
ObjectsOf(dirName) ==
    {k \in DOMAIN bucket : \E n \in 0..MaxCount, m \in 0..MaxCount :
        k = BuildKey(dirName, n, m)}

\* C24: whatever BackupDirectories runs and changes of a directory's files
\* there have been, the bucket holds at most one object that is a backup of
\* that directory.
C24_OneObjectPerDirectory ==
    \A dirName \in StoreDirNames : Cardinality(ObjectsOf(dirName)) <= 1

(***************************************************************************)
(* The File Renamer as one call, and OrganiseVideosAndRenameImages over    *)
(* the date directories of targetDir.                                      *)
(***************************************************************************)
\* One turn of the rename loop: os.Rename(file, targetDir/newFileName).  In
\* place (same) the file takes the new name in the source directory; else it
\* leaves the source directory and takes the new name in the target
\* directory.  A file that has the new name is replaced.
RenameTurn(st, same, baseName, file, i) ==
    LET new == NewFileName(baseName, i, file.path) IN
    IF same THEN [st EXCEPT !.src = Rename(st.src, file.path, new)]
    ELSE [src |-> [n \in DOMAIN st.src \ {file.path} |-> st.src[n]],
          dst |-> [n \in DOMAIN st.dst \cup {new} |->
                      IF n = new THEN st.src[file.path] ELSE st.dst[n]]]

\* The first k turns of the rename loop over the sorted files.
RECURSIVE RenameLoop(_, _, _, _, _)
RenameLoop(st, same, baseName, queue, k) ==
    IF k = 0 THEN st
    ELSE RenameTurn(RenameLoop(st, same, baseName, queue, k - 1), same, baseName,
                    queue[k], k)

\* The renamer with MkdirAll(targetDir) ahead of the test for no files.
renameFilesWithPatternInDirMkdirFirst(src, dst, same, baseName, retained, k) ==
    LET queue == CollectSorted(src, retained)
        after == RenameLoop([src |-> src, dst |-> dst], same, baseName, queue, k)
    IN [src |-> after.src, dst |-> after.dst, made |-> ~same,
        count |-> IF k < Len(queue) THEN 0 ELSE Len(queue),
        err |-> k < Len(queue)]

\* renameFilesWithPatternInDir(sourceDir, targetDir, baseName, filter): src
\* and dst are the files of the two directories (same: they are one
\* directory), retained the names the filter accepts, and k the number of
\* renames that succeed.  Returns the directories, whether MkdirAll ran,
\* the count and whether an error is returned.
renameFilesWithPatternInDir(src, dst, same, baseName, retained, k) ==
    LET queue == CollectSorted(src, retained)
        after == RenameLoop([src |-> src, dst |-> dst], same, baseName, queue, k)
    IN IF Len(queue) = 0
       THEN [src |-> src, dst |-> dst, made |-> FALSE, count |-> 0, err |-> FALSE]
       ELSE [src |-> after.src, dst |-> after.dst, made |-> ~same,
             count |-> IF k < Len(queue) THEN 0 ELSE Len(queue),
             err |-> k < Len(queue)]

\* strings.Join(parts, "_")
RECURSIVE JoinUnderscore(_)
JoinUnderscore(parts) ==
    IF Len(parts) = 0 THEN <<>>
    ELSE IF Len(parts) = 1 THEN parts[1]
    ELSE parts[1] \o <<"_">> \o JoinUnderscore(Tail(parts))

\* The files a date directory of the model can hold: an image, a video and
\* a file that is neither, each with a resolvable date.
OrgFileNames ==
    { <<"a", ".", "j", "p", "g">>, <<"v", ".", "m", "o", "v">>,
      <<"n", ".", "t", "x", "t">> }

\* The video an earlier run has left in the videos subdirectory of the date
\* directory.
OrgOldVideo == NewFileName(ReplaceSpaces(DatePrefix), 1, <<".", "m", "o", "v">>)

\* A date directory: any of the files, no videos subdirectory, an empty one,
\* or the one of an earlier run.
OrgDirContents ==
    {[root |-> [x \in N |-> [id |-> x, date |-> 1]], hasVideos |-> hv, videos |-> EmptyFn] :
        N \in SUBSET OrgFileNames, hv \in BOOLEAN}
    \cup
    {[root |-> [x \in N |-> [id |-> x, date |-> 1]], hasVideos |-> TRUE,
      videos |-> (OrgOldVideo :> [id |-> OrgOldVideo, date |-> 1])] :
        N \in SUBSET OrgFileNames}

\* The immediate subdirectories targetDir can have: a date directory, one
\* whose name has three tokens (it sorts before the date directory) and one
\* whose name has five (it sorts after it).
OrgDirNames ==
    { DatePrefix, SubSeq(DatePrefix, 1, 12), RenDirName }

InitOrg ==
    /\ orgPc = "start"
    /\ \E names \in SUBSET OrgDirNames : orgDirs \in [names -> OrgDirContents]
    /\ orgEntries = <<>>
    /\ orgCur = 0
    /\ orgInitial = orgDirs
    /\ OthersIdle("org")

\* os.ReadDir(targetDir): the entries sorted by name; the loop then takes
\* the directories one by one.
OrgReadDir ==
    /\ orgPc = "start"
    /\ orgEntries' = SortedSeq(DOMAIN orgDirs)
    /\ orgCur' = IF DOMAIN orgDirs = {} THEN 0 ELSE 1
    /\ orgPc' = IF DOMAIN orgDirs = {} THEN "done" ELSE "videos"
    /\ UNCHANGED <<orgDirs, orgInitial>>
    /\ OthersUnchanged("org")

\* organiseVideos(dirPath, entry.Name()): an error unless the name has
\* exactly four tokens; else the videos are moved into videos/ and renamed.
OrgVideos ==
    /\ orgPc = "videos"
    /\ LET dirName == orgEntries[orgCur]
           d == orgDirs[dirName]
           parts == Fields(dirName)
       IN IF Len(parts) # 4
          THEN orgPc' = "failed" /\ UNCHANGED orgDirs
          ELSE \E k \in 0..Cardinality(Videos(d.root)) :
                 LET r == renameFilesWithPatternInDir(d.root, d.videos, FALSE,
                              JoinUnderscore(parts), Videos(d.root), k)
                 IN /\ orgDirs' = [orgDirs EXCEPT ![dirName] =
                                      [root |-> r.src, hasVideos |-> d.hasVideos \/ r.made,
                                       videos |-> r.dst]]
                    /\ orgPc' = IF r.err THEN "failed" ELSE "images"
    /\ UNCHANGED <<orgEntries, orgCur, orgInitial>>
    /\ OthersUnchanged("org")

\* renameImages(dirPath, entry.Name()): the images are renamed in place;
\* then the loop goes to the next directory or the call returns nil.
OrgImages ==
    /\ orgPc = "images"
    /\ LET dirName == orgEntries[orgCur]
           d == orgDirs[dirName]
           parts == Fields(dirName)
       IN IF Len(parts) # 4
          THEN orgPc' = "failed" /\ UNCHANGED <<orgDirs, orgCur>>
          ELSE \E k \in 0..Cardinality(Images(d.root)) :
                 LET r == renameFilesWithPatternInDir(d.root, d.root, TRUE,
                              JoinUnderscore(parts), Images(d.root), k)
                 IN /\ orgDirs' = [orgDirs EXCEPT ![dirName].root = r.src]
                    /\ IF r.err THEN orgPc' = "failed" /\ UNCHANGED orgCur
                       ELSE IF orgCur = Len(orgEntries)
                       THEN orgPc' = "done" /\ UNCHANGED orgCur
                       ELSE orgPc' = "videos" /\ orgCur' = orgCur + 1
    /\ UNCHANGED <<orgEntries, orgInitial>>
    /\ OthersUnchanged("org")

NextOrg ==
    \/ OrgReadDir
    \/ OrgVideos
    \/ OrgImages

OrgStart == InitOrg /\ ParseIdle /\ PoolIdle /\ StoreIdle /\ RenIdle

SpecOrg == OrgStart /\ [][NextOrg]_vars

\* C21: when targetDir has a subdirectory whose name does not have exactly
\* four tokens, OrganiseVideosAndRenameImages renames and moves no file in
\* any subdirectory.
C21_MalformedDirBlocksBatch ==
    (orgPc # "idle" /\ \E dirName \in DOMAIN orgInitial : Len(Fields(dirName)) # 4) =>
        \A dirName \in DOMAIN orgDirs :
            /\ orgDirs[dirName].root = orgInitial[dirName].root
            /\ orgDirs[dirName].videos = orgInitial[dirName].videos

\* C33: at every point of OrganiseVideosAndRenameImages each date directory
\* holds, in its root and its videos subdirectory together, the files it
\* held at the call, and as many.
C33_RenamingDestroysNoFile ==
    \A dirName \in DOMAIN orgDirs :
        LET now == orgDirs[dirName]
            first == orgInitial[dirName]
        IN /\ IdsOf(first.root) \cup IdsOf(first.videos)
                 \subseteq IdsOf(now.root) \cup IdsOf(now.videos)
           /\ Cardinality(DOMAIN now.root) + Cardinality(DOMAIN now.videos)
                 = Cardinality(DOMAIN first.root) + Cardinality(DOMAIN first.videos)

\* C27: a call of the File Renamer leaves the files of srcDir that do not
\* pass the filter and the subdirectories where and as they are, and with no
\* file passing the filter it returns 0, creates no dstDir and changes
\* nothing.
C27_RenamerTouchesOnlyMatching ==
    [][\A dirName \in DOMAIN orgDirs :
         LET before == orgDirs[dirName]
             after == orgDirs'[dirName]
             matching == IF orgPc = "videos" THEN Videos(before.root)
                         ELSE Images(before.root)
             call == renameFilesWithPatternInDir(before.root, before.videos,
                         orgPc = "images", JoinUnderscore(Fields(dirName)), matching, 0)
         IN orgPc \in {"videos", "images"} =>
              /\ \A n \in DOMAIN before.root \ matching :
                     n \in DOMAIN after.root /\ after.root[n] = before.root[n]
              /\ orgPc = "images" =>
                     after.videos = before.videos /\ after.hasVideos = before.hasVideos
              /\ matching = {} =>
                     /\ after = before
                     /\ call.count = 0 /\ ~call.made /\ ~call.err
      ]_vars

\* organiseVideos has returned for a directory that holds an image and a
\* text file and no video: both are where they were and there is no videos
\* subdirectory.
C27_Witness ==
    /\ orgPc = "images"
    /\ LET d == orgDirs[orgEntries[orgCur]] IN
       /\ DOMAIN d.root = {<<"a", ".", "j", "p", "g">>, <<"n", ".", "t", "x", "t">>}
       /\ ~d.hasVideos
       /\ d = orgInitial[orgEntries[orgCur]]

\* C28: when os.Rename fails on the k-th file of the sorted queue, the
\* files before it are under their new names and the k-th and later files
\* are under their original names, each the file it was at the call.
C28_FailedRenameKeepsPrefixAndRest ==
    [][(renPc \in {"images", "videos"} /\ renPc' = "failed" /\ renIdx < Len(renQueue)) =>
         LET first == IF renPc = "images" THEN renInitial.root ELSE renInitial.videos
             now == IF renPc = "images" THEN dirRoot' ELSE dirVideos'
             baseName == ReplaceSpaces(NewDirName(directory, renNewName))
         IN \A i \in 1..Len(renQueue) :
              LET old == renQueue[i].path
                  name == IF i <= renIdx THEN NewFileName(baseName, i, old) ELSE old
              IN name \in DOMAIN now /\ now[name].id = first[old].id
      ]_vars

(***************************************************************************)
(* The date extractors and their chain.  Timestamps are 0..MaxDate, 0 the  *)
(* zero time.                                                              *)
(***************************************************************************)
\* A metadata date field of a file: absent, present with a string that
\* time.Parse rejects, or present with a string that parses to a timestamp.
FieldValues ==
    {[kind |-> "absent", time |-> 0], [kind |-> "bad", time |-> 0]} \cup
    {[kind |-> "ok", time |-> t] : t \in 0..MaxDate}

\* What the extractors can find for a file: whether exiftool fails on it
\* (cannot start, no metadata, a file error), its CreationDate and
\* CreateDate fields, and what os.Stat gives.
DateFiles ==
    [exifErr : BOOLEAN, CreationDate : FieldValues, CreateDate : FieldValues,
     statErr : BOOLEAN, modTime : 0..MaxDate]

\* exifDateExtractor.getFileDate: the first of CreationDate, CreateDate that
\* is present is parsed, and its parse error is returned.
exifGetFileDate(file) ==
    IF file.exifErr THEN [date |-> 0, err |-> TRUE]
    ELSE IF file.CreationDate.kind # "absent"
    THEN IF file.CreationDate.kind = "bad" THEN [date |-> 0, err |-> TRUE]
         ELSE [date |-> file.CreationDate.time, err |-> FALSE]
    ELSE IF file.CreateDate.kind # "absent"
    THEN IF file.CreateDate.kind = "bad" THEN [date |-> 0, err |-> TRUE]
         ELSE [date |-> file.CreateDate.time, err |-> FALSE]
    ELSE [date |-> 0, err |-> TRUE]

\* modTimeExtractor.getFileDate
modTimeGetFileDate(file) ==
    IF file.statErr THEN [date |-> 0, err |-> TRUE]
    ELSE [date |-> file.modTime, err |-> FALSE]

\* NewFileDateExtractor: the extractors in their order, applied to a file.
Extractors(file) == <<exifGetFileDate(file), modTimeGetFileDate(file)>>

InitDate ==
    /\ datePc = "loop"
    /\ dateFile \in DateFiles
    /\ dateIdx = 1
    /\ dateRet = <<>>
    /\ OthersIdle("date")

\* One turn of the loop of GetFileDate that returns a zero date as well.
DateTryAcceptingZero ==
    /\ datePc = "loop"
    /\ dateIdx <= Len(Extractors(dateFile))
    /\ LET r == Extractors(dateFile)[dateIdx] IN
       IF ~r.err
       THEN /\ dateRet' = [date |-> r.date, err |-> FALSE]
            /\ datePc' = "returned"
            /\ UNCHANGED dateIdx
       ELSE /\ dateIdx' = dateIdx + 1
            /\ UNCHANGED <<datePc, dateRet>>
    /\ UNCHANGED dateFile
    /\ OthersUnchanged("date")

\* One turn of the loop of GetFileDate: the extractor's date is returned if
\* err == nil && !date.IsZero(); else the loop goes on.
DateTry ==
    /\ datePc = "loop"
    /\ dateIdx <= Len(Extractors(dateFile))
    /\ LET r == Extractors(dateFile)[dateIdx] IN
       IF ~r.err /\ r.date # 0
       THEN /\ dateRet' = [date |-> r.date, err |-> FALSE]
            /\ datePc' = "returned"
            /\ UNCHANGED dateIdx
       ELSE /\ dateIdx' = dateIdx + 1
            /\ UNCHANGED <<datePc, dateRet>>
    /\ UNCHANGED dateFile
    /\ OthersUnchanged("date")

\* The loop is over: return time.Time{}, "all extractors failed".
DateAllFailed ==
    /\ datePc = "loop"
    /\ dateIdx > Len(Extractors(dateFile))
    /\ dateRet' = [date |-> 0, err |-> TRUE]
    /\ datePc' = "returned"
    /\ UNCHANGED <<dateFile, dateIdx>>
    /\ OthersUnchanged("date")

NextDate ==
    \/ DateTry
    \/ DateAllFailed

DateStart == InitDate /\ ParseIdle /\ PoolIdle /\ StoreIdle /\ RenIdle

SpecDate == DateStart /\ [][NextDate]_vars

\* The strategies that succeed on a file: no error and a non-zero timestamp.
Succeeding(file) ==
    {i \in 1..Len(Extractors(file)) :
        ~Extractors(file)[i].err /\ Extractors(file)[i].date # 0}

C23_BadCreationDateFallsToCreateDate ==
    (/\ datePc = "returned"
     /\ ~dateFile.exifErr
     /\ dateFile.CreationDate.kind = "bad"
     /\ dateFile.CreateDate.kind = "ok" /\ dateFile.CreateDate.time # 0) =>
        dateRet = [date |-> dateFile.CreateDate.time, err |-> FALSE]

(***************************************************************************)
(* Parse over a source tree: the count pre-pass, the discovery walk, the   *)
(* copies into the staging directory, OrganiseByDate and                   *)
(* OrganiseVideosAndRenameImages, one after the other.                     *)
(***************************************************************************)
AJpg == <<"a", ".", "j", "p", "g">>
DotAJpg == <<".">> \o AJpg
NTxt == <<"n", ".", "t", "x", "t">>
RootDir == <<"r", "o", "o", "t">>
DotDir == <<".", "d">>
SubDir == <<"d">>

\* The subdirectories of the source directory: some files and at most one
\* subdirectory, plain or dot-prefixed, that holds a.jpg.
WalkSubdirs == [files : SUBSET {AJpg, DotAJpg}, sub : {{}, {SubDir}, {DotDir}}]

\* The entries of a source tree with the given files and subdirectories.
TreeOf(rootFiles, subdirs) ==
    {[path |-> <<f>>, isDir |-> FALSE] : f \in rootFiles}
    \cup {[path |-> <<d>>, isDir |-> TRUE] : d \in DOMAIN subdirs}
    \cup UNION {{[path |-> <<d, f>>, isDir |-> FALSE] : f \in subdirs[d].files} :
                 d \in DOMAIN subdirs}
    \cup UNION {{[path |-> <<d, e>>, isDir |-> TRUE] : e \in subdirs[d].sub} :
                 d \in DOMAIN subdirs}
    \cup UNION {{[path |-> <<d, e, AJpg>>, isDir |-> FALSE] : e \in subdirs[d].sub} :
                 d \in DOMAIN subdirs}

\* The source trees: a.jpg, .a.jpg and n.txt or some of them in the source
\* directory, and the subdirectories root and .d or some of them.
WalkTrees ==
    UNION {{TreeOf(rootFiles, subdirs) : subdirs \in [names -> WalkSubdirs]} :
              rootFiles \in SUBSET {AJpg, DotAJpg, NTxt},
              names \in SUBSET {RootDir, DotDir}}

IsSupported(filePath) == IsImage(filePath) \/ IsVideo(filePath)

IsJPEG(filePath) ==
    ToLower(Ext(filePath)) \in {<<".", "j", "p", "g">>, <<".", "j", "p", "e", "g">>}

\* The names of the entries of a directory of the tree, in the lexical order
\* filepath.Walk visits them in.
WalkNames(tree, path) ==
    SortedSeq({e.path[Len(e.path)] : e \in
        {x \in tree : Len(x.path) = Len(path) + 1 /\ SubSeq(x.path, 1, Len(path)) = path}})

IsDirAt(tree, path) == [path |-> path, isDir |-> TRUE] \in tree

\* countFiles: filepath.Walk with a callback that prunes a dot-prefixed
\* directory, ignores a dot-prefixed file and counts a supported file.
RECURSIVE countWalk(_, _, _, _), countEntries(_, _, _)
countWalk(tree, path, name, isDir) ==
    IF HasPrefix(name, <<".">>) THEN 0
    ELSE IF ~isDir THEN (IF IsSupported(name) THEN 1 ELSE 0)
    ELSE countEntries(tree, path, WalkNames(tree, path))

countEntries(tree, path, names) ==
    IF names = <<>> THEN 0
    ELSE countWalk(tree, Append(path, Head(names)), Head(names),
                   IsDirAt(tree, Append(path, Head(names))))
         + countEntries(tree, path, Tail(names))

countFiles(root, tree) == countWalk(tree, <<>>, root, TRUE)

\* strings.ReplaceAll(filepath.Dir(relPath), "/", "-"), "root" for ".":
\* the directories of the relative path joined by dashes.
RECURSIVE JoinDash(_)
JoinDash(parts) ==
    IF Len(parts) = 1 THEN parts[1]
    ELSE parts[1] \o <<"-">> \o JoinDash(Tail(parts))

DestName(path) ==
    LET dirs == SubSeq(path, 1, Len(path) - 1)
        prefix == IF dirs = <<>> THEN RootDir ELSE JoinDash(dirs)
    IN prefix \o <<"-">> \o path[Len(path)]

\* The discovery walk without the rule for dot-prefixed entries.
RECURSIVE discoverWalkAll(_, _, _, _), discoverEntriesAll(_, _, _)
discoverWalkAll(tree, path, name, isDir) ==
    IF isDir THEN discoverEntriesAll(tree, path, WalkNames(tree, path))
    ELSE IF IsSupported(name)
    THEN <<[srcPath |-> path, destPath |-> DestName(path), isJPEG |-> IsJPEG(name)]>>
    ELSE <<>>

discoverEntriesAll(tree, path, names) ==
    IF names = <<>> THEN <<>>
    ELSE discoverWalkAll(tree, Append(path, Head(names)), Head(names),
                         IsDirAt(tree, Append(path, Head(names))))
         \o discoverEntriesAll(tree, path, Tail(names))

discoverFilesAll(root, tree) == discoverWalkAll(tree, <<>>, root, TRUE)

\* discoverFiles: filepath.Walk with a callback that prunes a dot-prefixed
\* directory, ignores a dot-prefixed file and sends a job for a supported
\* file.
RECURSIVE discoverWalk(_, _, _, _), discoverEntries(_, _, _)
discoverWalk(tree, path, name, isDir) ==
    IF HasPrefix(name, <<".">>) THEN <<>>
    ELSE IF isDir THEN discoverEntries(tree, path, WalkNames(tree, path))
    ELSE IF IsSupported(name)
    THEN <<[srcPath |-> path, destPath |-> DestName(path), isJPEG |-> IsJPEG(name)]>>
    ELSE <<>>

discoverEntries(tree, path, names) ==
    IF names = <<>> THEN <<>>
    ELSE discoverWalk(tree, Append(path, Head(names)), Head(names),
                      IsDirAt(tree, Append(path, Head(names))))
         \o discoverEntries(tree, path, Tail(names))

discoverFiles(root, tree) == discoverWalk(tree, <<>>, root, TRUE)

InitWalk ==
    /\ walkPc = "count"
    /\ walkRoot \in {<<"s">>, <<".", "s">>}
    /\ walkTree \in WalkTrees
    /\ walkTotal = 0
    /\ walkJobs = <<>>
    /\ walkStaging = EmptyFn
    /\ walkTarget = EmptyFn
    /\ OthersIdle("walk")

\* copyAndCompressFiles: totalFiles, err := p.countFiles(sourceDir)
WalkCount ==
    /\ walkPc = "count"
    /\ walkTotal' = countFiles(walkRoot, walkTree)
    /\ walkPc' = "discover"
    /\ UNCHANGED <<walkRoot, walkTree, walkJobs, walkStaging, walkTarget>>
    /\ OthersUnchanged("walk")

\* go p.discoverFiles(sourceDir, tmpTarget, jobs), to the close of jobs.
WalkDiscover ==
    /\ walkPc = "discover"
    /\ walkJobs' = discoverFiles(walkRoot, walkTree)
    /\ walkPc' = "copy"
    /\ UNCHANGED <<walkRoot, walkTree, walkTotal, walkStaging, walkTarget>>
    /\ OthersUnchanged("walk")

\* The workers have copied every job: copyFilePreserveTime creates or
\* truncates destPath, copies, and then sets the modification time with
\* os.Chtimes.  Of the jobs with one destPath, run by workers at the same
\* time, the content left is that of the last io.Copy and the modification
\* time that of the last os.Chtimes.
WalkCopy ==
    /\ walkPc = "copy"
    /\ LET dests == {walkJobs[i].destPath : i \in 1..Len(walkJobs)} IN
       \E winner, stamp \in [dests -> 1..MaxWalkJobs] :
          /\ \A n \in dests : winner[n] <= Len(walkJobs) /\ walkJobs[winner[n]].destPath = n
          /\ \A n \in dests : stamp[n] <= Len(walkJobs) /\ walkJobs[stamp[n]].destPath = n
          /\ walkStaging' = [n \in dests |-> [src |-> walkJobs[winner[n]].srcPath,
                                              modTime |-> walkJobs[stamp[n]].srcPath]]
    /\ walkPc' = "organise"
    /\ UNCHANGED <<walkRoot, walkTree, walkTotal, walkJobs, walkTarget>>
    /\ OthersUnchanged("walk")

\* OrganiseByDate(tmpTarget, targetDir): every file of the staging directory
\* is moved under its name into the directory of its date (every file of
\* the model has the date of DatePrefix).
WalkOrganise ==
    /\ walkPc = "organise"
    /\ walkTarget' =
         IF DOMAIN walkStaging = {} THEN EmptyFn
         ELSE DatePrefix :> [root |-> [n \in DOMAIN walkStaging |->
                                          [id |-> walkStaging[n].src, date |-> 1]],
                             videos |-> EmptyFn]
    /\ walkStaging' = EmptyFn
    /\ walkPc' = "rename"
    /\ UNCHANGED <<walkRoot, walkTree, walkTotal, walkJobs>>
    /\ OthersUnchanged("walk")

\* organiseVideos and renameImages on a date directory, every rename
\* succeeding.
OrganisedDir(dirName, d) ==
    LET baseName == JoinUnderscore(Fields(dirName))
        v == renameFilesWithPatternInDir(d.root, d.videos, FALSE, baseName,
                 Videos(d.root), Cardinality(Videos(d.root)))
        i == renameFilesWithPatternInDir(v.src, v.src, TRUE, baseName,
                 Images(v.src), Cardinality(Images(v.src)))
    IN [root |-> i.src, videos |-> v.dst]

\* OrganiseVideosAndRenameImages(targetDir), returning nil; then Parse does.
WalkRename ==
    /\ walkPc = "rename"
    /\ walkTarget' = [dirName \in DOMAIN walkTarget |->
                         OrganisedDir(dirName, walkTarget[dirName])]
    /\ walkPc' = "done"
    /\ UNCHANGED <<walkRoot, walkTree, walkTotal, walkJobs, walkStaging>>
    /\ OthersUnchanged("walk")

NextWalk ==
    \/ WalkCount
    \/ WalkDiscover
    \/ WalkCopy
    \/ WalkOrganise
    \/ WalkRename

WalkStart == InitWalk /\ ParseIdle /\ PoolIdle /\ StoreIdle /\ RenIdle

SpecWalk == WalkStart /\ [][NextWalk]_vars

\* The supported files of the tree that are neither dot-prefixed nor below
\* a dot-prefixed directory, the source directory included.
VisibleFiles(root, tree) ==
    {e.path : e \in {x \in tree :
        /\ ~x.isDir
        /\ IsSupported(x.path[Len(x.path)])
        /\ ~HasPrefix(root, <<".">>)
        /\ \A i \in 1..Len(x.path) : ~HasPrefix(x.path[i], <<".">>)}}

\* C25: the total of the count pre-pass is the number of jobs the discovery
\* walk sends, and the jobs are the supported files that are not
\* dot-prefixed and not below a dot-prefixed directory.
C25_CountAndDiscoveryAgree ==
    walkPc \in {"copy", "organise", "rename", "done"} =>
        /\ walkTotal = Len(walkJobs)
        /\ walkTotal = Cardinality(VisibleFiles(walkRoot, walkTree))
        /\ {walkJobs[i].srcPath : i \in 1..Len(walkJobs)} = VisibleFiles(walkRoot, walkTree)

\* A tree with a.jpg, .a.jpg and .d/a.jpg has been counted and walked, with
\* one job.
C25_Witness ==
    /\ walkPc = "copy"
    /\ [path |-> <<DotAJpg>>, isDir |-> FALSE] \in walkTree
    /\ [path |-> <<DotDir, AJpg>>, isDir |-> FALSE] \in walkTree
    /\ walkTotal = 1
    /\ Len(walkJobs) = 1

\* GetFileCount(targetDir): the supported files in the date directories and
\* their videos subdirectories that are not dot-prefixed.
TargetFileCount ==
    LET counted(dir) == Cardinality({n \in DOMAIN dir :
                            ~HasPrefix(n, <<".">>) /\ IsSupported(n)})
        RECURSIVE sum(_)
        sum(S) == IF S = {} THEN 0
                  ELSE LET dirName == CHOOSE x \in S : TRUE
                       IN counted(walkTarget[dirName].root)
                            + counted(walkTarget[dirName].videos) + sum(S \ {dirName})
    IN sum(DOMAIN walkTarget)

\* C29: after Parse into an empty target directory has returned nil, the
\* target holds as many files as GetFileCount counts under the source.
C29_ParseConservesFiles ==
    walkPc = "done" => TargetFileCount = countFiles(walkRoot, walkTree)

\* C36: the source tree is the same at every step of Parse, and every file
\* of the staging directory has the modification time of the source file it
\* is a copy of.
C36_SourceUntouchedCopiesKeepTime ==
    /\ [](\A n \in DOMAIN walkStaging : walkStaging[n].modTime = walkStaging[n].src)
    /\ [][walkTree' = walkTree /\ walkRoot' = walkRoot]_vars

\* C37: whatever the name of the source directory, the count and the jobs
\* cover every supported file below it that is not dot-prefixed and not
\* below a dot-prefixed directory.
C37_DotRuleSparesSourceRoot ==
    walkPc \in {"copy", "organise", "rename", "done"} =>
        LET below == {e.path : e \in {x \in walkTree :
                        /\ ~x.isDir
                        /\ IsSupported(x.path[Len(x.path)])
                        /\ \A i \in 1..Len(x.path) : ~HasPrefix(x.path[i], <<".">>)}}
        IN /\ walkTotal = Cardinality(below)
           /\ {walkJobs[i].srcPath : i \in 1..Len(walkJobs)} = below

\* C32: the jobs of one discovery walk have distinct staging paths.
C32_StagingNamesInjective ==
    \A i, j \in 1..Len(walkJobs) :
        walkJobs[i].srcPath # walkJobs[j].srcPath =>
            walkJobs[i].destPath # walkJobs[j].destPath


(***************************************************************************)
(* The temporary directories of the backup and restore jobs.  The jobs of  *)
(* one worker pool run concurrently; each creates a directory, writes its  *)
(* archive into it, reads the archive back and removes the directory.      *)
(***************************************************************************)
TempJobs == 1..MaxTempJobs

InitTemp ==
    /\ tempPrefix \in {"/tmp/pics_tmp_%d", "/tmp/pics_restore_%d"}
    /\ tempPc = [j \in TempJobs |-> "start"]
    /\ tempDirOf = [j \in TempJobs |-> 0]
    /\ tempDirs \in SUBSET (0..MaxRand)
    /\ tempFiles = {}
    /\ tempResult = [j \in TempJobs |-> ""]
    /\ OthersIdle("temp")

\* createTempDir: tmpDir := fmt.Sprintf(prefix, rand.Int()); os.MkdirAll
\* creates the directory, succeeds on one that exists already, or fails.
createTempDir(j) ==
    /\ tempPc[j] = "start"
    /\ \E n \in 0..MaxRand, ok \in BOOLEAN :
        IF ok
        THEN /\ tempDirOf' = [tempDirOf EXCEPT ![j] = n]
             /\ tempDirs' = tempDirs \cup {n}
             /\ tempPc' = [tempPc EXCEPT ![j] = "write"]
             /\ UNCHANGED tempResult
        ELSE /\ tempPc' = [tempPc EXCEPT ![j] = "failed"]
             /\ tempResult' = [tempResult EXCEPT ![j] = "error"]
             /\ UNCHANGED <<tempDirOf, tempDirs>>
    /\ UNCHANGED <<tempPrefix, tempFiles>>
    /\ OthersUnchanged("temp")

\* backupDirectory: createTarGz(dirPath, archivePath); restoreObject:
\* os.Create(archivePath) and io.Copy.  The archive is written into the
\* job's directory; with the directory gone the file cannot be created and
\* the job returns the error, its deferred cleanup still to run.
TempWriteArchive(j) ==
    /\ tempPc[j] = "write"
    /\ IF tempDirOf[j] \in tempDirs
       THEN /\ tempFiles' = tempFiles \cup {<<tempDirOf[j], j>>}
            /\ tempPc' = [tempPc EXCEPT ![j] = "read"]
            /\ UNCHANGED tempResult
       ELSE /\ tempPc' = [tempPc EXCEPT ![j] = "cleanup"]
            /\ tempResult' = [tempResult EXCEPT ![j] = "error"]
            /\ UNCHANGED tempFiles
    /\ UNCHANGED <<tempPrefix, tempDirOf, tempDirs>>
    /\ OthersUnchanged("temp")

\* backupDirectory: calculateMD5(archivePath) and the upload; restoreObject:
\* extractTarGz(archivePath, targetDir).  The archive is opened by its
\* path; a missing archive is an error.
TempReadArchive(j) ==
    /\ tempPc[j] = "read"
    /\ tempResult' = [tempResult EXCEPT ![j] =
            IF <<tempDirOf[j], j>> \in tempFiles THEN "ok" ELSE "error"]
    /\ tempPc' = [tempPc EXCEPT ![j] = "cleanup"]
    /\ UNCHANGED <<tempPrefix, tempDirOf, tempDirs, tempFiles>>
    /\ OthersUnchanged("temp")

\* defer cleanup(): os.RemoveAll(tmpDir) removes the directory and all that
\* is in it.
TempCleanup(j) ==
    /\ tempPc[j] = "cleanup"
    /\ tempDirs' = tempDirs \ {tempDirOf[j]}
    /\ tempFiles' = {f \in tempFiles : f[1] # tempDirOf[j]}
    /\ tempPc' = [tempPc EXCEPT ![j] = "done"]
    /\ UNCHANGED <<tempPrefix, tempDirOf, tempResult>>
    /\ OthersUnchanged("temp")

NextTemp ==
    \/ \E j \in TempJobs : createTempDir(j)
    \/ \E j \in TempJobs : TempWriteArchive(j)
    \/ \E j \in TempJobs : TempReadArchive(j)
    \/ \E j \in TempJobs : TempCleanup(j)

TempStart == InitTemp /\ ParseIdle /\ PoolIdle /\ StoreIdle /\ RenIdle

SpecTemp == TempStart /\ [][NextTemp]_vars

\* The jobs that hold a temporary directory: createTempDir has returned
\* one and the cleanup has not run.
TempHolders == {j \in TempJobs : tempPc[j] \in {"write", "read", "cleanup"}}

\* C30: no two jobs hold the same temporary directory at the same time.
C30_TempDirsDistinct ==
    \A j1, j2 \in TempHolders : j1 # j2 => tempDirOf[j1] # tempDirOf[j2]


(***************************************************************************)
(* The counts in the key of a directory.                                   *)
(***************************************************************************)
\* The paths a directory of the model can hold: an image, a video and a text
\* file directly in it, the same three in its videos subdirectory, and a
\* video one level further down.
CountPaths ==
    { <<"a", ".", "j", "p", "g">>, <<"v", ".", "m", "o", "v">>,
      <<"n", ".", "t", "x", "t">>,
      VideosPrefix \o <<"a", ".", "j", "p", "g">>,
      VideosPrefix \o <<"v", ".", "m", "o", "v">>,
      VideosPrefix \o <<"n", ".", "t", "x", "t">>,
      VideosPrefix \o <<"d", "/", "v", ".", "m", "o", "v">> }

InitCount ==
    /\ cmPc = "start"
    /\ cmDir \in SUBSET CountPaths
    /\ cmKey = <<>>
    /\ OthersIdle("count")

\* backupDirectory: countMediaFiles(dirPath), then the key with the counts.
CountBuildKey ==
    /\ cmPc = "start"
    /\ LET counts == countMediaFiles([f \in cmDir |-> f]) IN
       cmKey' = BuildKey(RenDirName, counts.images, counts.videos)
    /\ cmPc' = "built"
    /\ UNCHANGED cmDir
    /\ OthersUnchanged("count")

NextCount == CountBuildKey

CountStart == InitCount /\ ParseIdle /\ PoolIdle /\ StoreIdle /\ RenIdle

SpecCount == CountStart /\ [][NextCount]_vars

\* C31: the key carries the number of image files directly in the directory
\* and the number of video files directly in it or directly in videos/.
C31_KeyCountsClassifyRootAndVideos ==
    cmPc = "built" =>
        cmKey = BuildKey(RenDirName,
                    Cardinality({f \in cmDir : ~InSubdir(f) /\ IsImage(f)}),
                    Cardinality({f \in cmDir :
                        /\ IsVideo(f)
                        /\ \/ ~InSubdir(f)
                           \/ /\ HasPrefix(f, VideosPrefix)
                              /\ ~InSubdir(SubSeq(f, Len(VideosPrefix) + 1, Len(f)))}))


(***************************************************************************)
(* backupDirectory for one key in invocations of BackupDirectories that    *)
(* run at the same time against one bucket: each has written its archive   *)
(* and hashed it, asks the store for the key, and uploads on not-found.    *)
(***************************************************************************)
Invocations == 1..MaxInvocations

InitRace ==
    /\ bkPc = [i \in Invocations |-> "head"]
    /\ bkArchive \in [Invocations -> 1..MaxData]
    /\ bkObject \in {<<>>} \cup {<<a>> : a \in 1..MaxData}
    /\ OthersIdle("race")

\* What HeadObject can answer for the key, as HeadResponses for the bucket
\* of one invocation.
RaceHeadResponses ==
    IF bkObject # <<>>
    THEN {[err |-> "nil", etag |-> ETagOf(bkObject[1])],
          [err |-> "nil", etag |-> <<>>],
          [err |-> "Other", etag |-> <<>>]}
    ELSE {[err |-> e, etag |-> <<>>] :
             e \in {"NotFoundType", "APINotFound", "MsgNotFound",
                    "MsgStatusCode404", "Other"}}

\* backupDirectory: HeadObject and the decision on its answer.
RaceHead(i) ==
    /\ bkPc[i] = "head"
    /\ \E resp \in RaceHeadResponses :
         LET decision == HeadDecision(resp, calculateMD5(bkArchive[i])) IN
         bkPc' = [bkPc EXCEPT ![i] = IF decision = "upload" THEN "put"
                                     ELSE IF decision = "skip" THEN "ok"
                                     ELSE "failed"]
    /\ UNCHANGED <<bkArchive, bkObject>>
    /\ OthersUnchanged("race")

\* backupDirectory: uploadToS3; PutObject stores the archive under the key,
\* replacing what is there, or fails.
RacePut(i) ==
    /\ bkPc[i] = "put"
    /\ \E ok \in BOOLEAN :
         IF ok
         THEN bkObject' = <<bkArchive[i]>> /\ bkPc' = [bkPc EXCEPT ![i] = "ok"]
         ELSE UNCHANGED bkObject /\ bkPc' = [bkPc EXCEPT ![i] = "failed"]
    /\ UNCHANGED bkArchive
    /\ OthersUnchanged("race")

NextRace ==
    \/ \E i \in Invocations : RaceHead(i)
    \/ \E i \in Invocations : RacePut(i)

RaceStart == InitRace /\ ParseIdle /\ PoolIdle /\ StoreIdle /\ RenIdle

SpecRace == RaceStart /\ [][NextRace]_vars

\* C34: an object stored under the key is never replaced by another one.
C34_StoredObjectNeverReplaced ==
    [][bkObject # <<>> => bkObject' = bkObject]_vars


(***************************************************************************)
(* Parse over a source tree in which a path can become unreadable: the     *)
(* count pre-pass, the discovery walk, the workers and the organiser, with *)
(* the files taken in walk order.                                          *)
(***************************************************************************)
InitFault ==
    /\ dwPc = "count"
    /\ dwFiles \in 0..MaxFiles
    /\ dwFailCopy \in SUBSET (1..dwFiles)
    /\ dwTotal = 0
    /\ dwSent = 0
    /\ dwWalkErr = FALSE
    /\ dwRet = "none"
    /\ OthersIdle("fault")

\* copyAndCompressFiles: totalFiles, err := p.countFiles(sourceDir); an error
\* of the count is returned by Parse.
FaultCount ==
    /\ dwPc = "count"
    /\ \E ok \in BOOLEAN :
         IF ok
         THEN dwTotal' = dwFiles /\ dwPc' = "walk" /\ UNCHANGED dwRet
         ELSE dwRet' = "err" /\ dwPc' = "returned" /\ UNCHANGED dwTotal
    /\ UNCHANGED <<dwFiles, dwFailCopy, dwSent, dwWalkErr>>
    /\ OthersUnchanged("fault")

\* discoverFiles: the callback is called for the next supported file with a
\* nil error and sends its job.
FaultSend ==
    /\ dwPc = "walk"
    /\ dwSent < dwFiles
    /\ dwSent' = dwSent + 1
    /\ UNCHANGED <<dwPc, dwFiles, dwFailCopy, dwTotal, dwWalkErr, dwRet>>
    /\ OthersUnchanged("fault")

\* discoverFiles: the callback is called with the error of a path that
\* cannot be accessed, logs it and returns it; filepath.Walk stops and
\* returns the error, which discoverFiles does not take; the deferred
\* close(jobs) runs.
FaultWalkError ==
    /\ dwPc = "walk"
    /\ dwWalkErr' = TRUE
    /\ dwPc' = "workers"
    /\ UNCHANGED <<dwFiles, dwFailCopy, dwTotal, dwSent, dwRet>>
    /\ OthersUnchanged("fault")

\* discoverFiles: the walk has visited the whole tree; close(jobs).
FaultWalkReturn ==
    /\ dwPc = "walk"
    /\ dwSent = dwFiles
    /\ dwPc' = "workers"
    /\ UNCHANGED <<dwFiles, dwFailCopy, dwTotal, dwSent, dwWalkErr, dwRet>>
    /\ OthersUnchanged("fault")

\* copyAndCompressFiles after wg.Wait(): the workers have taken the jobs that
\* were sent; the first of their errors is returned, and Parse returns it.
FaultCopyReturn ==
    /\ dwPc = "workers"
    /\ IF dwFailCopy \cap (1..dwSent) # {}
       THEN dwRet' = "err" /\ dwPc' = "returned"
       ELSE dwPc' = "organise" /\ UNCHANGED dwRet
    /\ UNCHANGED <<dwFiles, dwFailCopy, dwTotal, dwSent, dwWalkErr>>
    /\ OthersUnchanged("fault")

\* Parse: OrganiseByDate and OrganiseVideosAndRenameImages on what was
\* staged; Parse returns their error or nil.
FaultOrganise ==
    /\ dwPc = "organise"
    /\ \E ok \in BOOLEAN : dwRet' = IF ok THEN "nil" ELSE "err"
    /\ dwPc' = "returned"
    /\ UNCHANGED <<dwFiles, dwFailCopy, dwTotal, dwSent, dwWalkErr>>
    /\ OthersUnchanged("fault")

NextFault ==
    \/ FaultCount
    \/ FaultSend
    \/ FaultWalkError
    \/ FaultWalkReturn
    \/ FaultCopyReturn
    \/ FaultOrganise

FaultStart == InitFault /\ ParseIdle /\ PoolIdle /\ StoreIdle /\ RenIdle

SpecFault == FaultStart /\ [][NextFault]_vars

\* C38: a Parse whose discovery walk was stopped by an error before it had
\* sent every file the count had found returns an error.
C38_WalkErrorFailsParse ==
    (dwPc = "returned" /\ dwWalkErr /\ dwSent < dwTotal) => dwRet = "err"


(***************************************************************************)
(* OrganiseByDate: the regular files directly in sourceDir are moved into  *)
(* the date directories of targetDir.                                      *)
(***************************************************************************)
\* fileDate.Format("2006 01 January 02") for the dates of the model:
\* "2023 06 June 15" and "2023 06 June 16".
DateDirName(date) ==
    IF date = 1 THEN DatePrefix
    ELSE SubSeq(DatePrefix, 1, Len(DatePrefix) - 1) \o <<"6">>

\* The entries sourceDir can have: two files, each with a date (0: no
\* extractor gives one and GetFileDate returns an error), and a directory.
ByDateSources ==
    UNION {{[n \in N \cup D |->
                IF n \in D THEN [isDir |-> TRUE, id |-> n, date |-> 0]
                ELSE [isDir |-> FALSE, id |-> n, date |-> dates[n]]] :
              dates \in [N -> 0..MaxDate]} :
          N \in SUBSET {<<"a", ".", "j", "p", "g">>, <<"v", ".", "m", "o", "v">>},
          D \in SUBSET {<<"d">>}}

\* targetDir before the call: any of the date directories, each empty or
\* holding a file named a.jpg from an earlier call.
ByDateTargets ==
    UNION {[dirs -> {EmptyFn, (<<"a", ".", "j", "p", "g">> :> "old")}] :
              dirs \in SUBSET {DateDirName(d) : d \in 1..MaxDate}}

InitByDate ==
    /\ obPc = "start"
    /\ obSource \in ByDateSources
    /\ obTarget \in ByDateTargets
    /\ obEntries = <<>>
    /\ obCur = 0
    /\ obInitial = [source |-> obSource, target |-> obTarget]
    /\ OthersIdle("byDate")

\* entries, err := os.ReadDir(sourceDir): the entries in name order, or the
\* error, which is returned.
ByDateReadDir ==
    /\ obPc = "start"
    /\ \E ok \in BOOLEAN :
         IF ok
         THEN obEntries' = SortedSeq(DOMAIN obSource) /\ obPc' = "loop"
         ELSE obPc' = "err" /\ UNCHANGED obEntries
    /\ UNCHANGED <<obSource, obTarget, obCur, obInitial>>
    /\ OthersUnchanged("byDate")

\* One turn of the loop: a directory is skipped; for a file GetFileDate,
\* os.MkdirAll(destDir) and os.Rename(filePath, destDir/name), which
\* replaces a file of that name; the error of any of them is returned.
ByDateTurn ==
    /\ obPc = "loop"
    /\ obCur < Len(obEntries)
    /\ obCur' = obCur + 1
    /\ LET name == obEntries[obCur + 1]
           e == obSource[name]
           destDir == DateDirName(e.date)
           made == IF destDir \in DOMAIN obTarget THEN obTarget
                   ELSE [d \in DOMAIN obTarget \cup {destDir} |->
                            IF d = destDir THEN EmptyFn ELSE obTarget[d]]
       IN IF e.isDir
          THEN UNCHANGED <<obPc, obSource, obTarget>>
          ELSE IF e.date = 0
          THEN obPc' = "err" /\ UNCHANGED <<obSource, obTarget>>
          ELSE \E mkdirOk, renameOk \in BOOLEAN :
                 IF ~mkdirOk
                 THEN obPc' = "err" /\ UNCHANGED <<obSource, obTarget>>
                 ELSE IF ~renameOk
                 THEN obPc' = "err" /\ obTarget' = made /\ UNCHANGED obSource
                 ELSE /\ obTarget' = [made EXCEPT ![destDir] =
                            [n \in DOMAIN made[destDir] \cup {name} |->
                                IF n = name THEN e.id ELSE made[destDir][n]]]
                      /\ obSource' = [n \in DOMAIN obSource \ {name} |-> obSource[n]]
                      /\ UNCHANGED obPc
    /\ UNCHANGED <<obEntries, obInitial>>
    /\ OthersUnchanged("byDate")

\* The loop has handled every entry: return nil.
ByDateReturn ==
    /\ obPc = "loop"
    /\ obCur = Len(obEntries)
    /\ obPc' = "nil"
    /\ UNCHANGED <<obSource, obTarget, obEntries, obCur, obInitial>>
    /\ OthersUnchanged("byDate")

NextByDate ==
    \/ ByDateReadDir
    \/ ByDateTurn
    \/ ByDateReturn

ByDateStart == InitByDate /\ ParseIdle /\ PoolIdle /\ StoreIdle /\ RenIdle

SpecByDate == ByDateStart /\ [][NextByDate]_vars

\* C39: when OrganiseByDate has returned nil, every regular file that was
\* directly in sourceDir is in the directory of its date under targetDir
\* with the name it had, sourceDir holds no regular file and the directories
\* it held, and every file targetDir held is there as it was.
C39_OrganisedByDateKeepsTarget ==
    obPc = "nil" =>
        /\ \A n \in DOMAIN obInitial.source :
              LET e == obInitial.source[n] IN
              IF e.isDir
              THEN n \in DOMAIN obSource /\ obSource[n] = e
              ELSE /\ n \notin DOMAIN obSource
                   /\ DateDirName(e.date) \in DOMAIN obTarget
                   /\ n \in DOMAIN obTarget[DateDirName(e.date)]
                   /\ obTarget[DateDirName(e.date)][n] = e.id
        /\ \A n \in DOMAIN obSource : obSource[n].isDir
        /\ \A d \in DOMAIN obInitial.target :
              /\ d \in DOMAIN obTarget
              /\ \A n \in DOMAIN obInitial.target[d] :
                    n \in DOMAIN obTarget[d] /\ obTarget[d][n] = obInitial.target[d][n]

============================================================================
